---- MODULE Spec2Model ----
(***************************************************************************)
(* Orchestration core of LMArenaBridge's multi-instance server:            *)
(* InstanceCoordinator + BrowserManager (pool membership), HealthMonitor   *)
(* (periodic probes, alerts, replacement) and LoadBalancer (routing).      *)
(* All coroutines run on one asyncio event loop: a step of the model is    *)
(* the code executed between two suspension points (await of real I/O).    *)
(***************************************************************************)
EXTENDS Integers, FiniteSets, Sequences, TLC

\* ---------------------------------------------------------------- bounds
\* Pool of instance identifiers (uuid4 values; an id referenced nowhere is
\* as good as a new uuid, so released ids are drawn again).
MaxIds == 3
\* Concurrent operator POST /instances calls suspended in initialize().
MaxOpCreate == 1
\* Concurrent operator DELETE /instances/{id} calls suspended in cleanup().
MaxOpRemove == 2
\* Request identifiers of the request-handling layer.
MaxRequests == 1
\* Request identifiers handed to InstanceCoordinator.handle_request.
MaxCoordRequests == 1
\* Calls of InstanceCoordinator.scale_instances that can be in progress.
MaxEvaluations == 2
\* Largest configured instances.initial_count explored.
MaxInitialCount == 3
\* instances.max_instances of the explored configuration.
max_instances == 2
\* instances.max_retries of the explored configuration.
max_retries == 1

\* ------------------------------------------------- program configuration
\* instances.min_instances (default).
min_instances == 1

Ids == 1..MaxIds
Requests == 1..MaxRequests
CoordRequests == 1..MaxCoordRequests
Evaluations == 1..MaxEvaluations
NoId == 0

VARIABLES
    phase,              \* "boot" | "running" | "failed" | "stopped" (server lifespan)
    initial_count,      \* InstanceCoordinator.initial_count (configuration)
    boot_i,             \* loop index of InstanceCoordinator.initialize
    instances,          \* BrowserManager.instances: id -> BrowserInstance.status
    healthy_instances,  \* InstanceCoordinator.healthy_instances
    unhealthy_instances,\* InstanceCoordinator.unhealthy_instances
    instance_metrics,   \* keys of InstanceCoordinator.instance_metrics
    op_creating,        \* operator create_instance calls suspended in initialize()
    removing,           \* id -> operator remove_instance calls suspended in cleanup()
    scale,              \* call of scale_instances -> [pc, target, started]
    last_scale_action,  \* "none" | "recent" (inside scale_cooldown) | "old"
    is_monitoring,      \* HealthMonitor.is_monitoring
    mon_pc,             \* position of HealthMonitor._monitoring_loop
    probe,              \* id -> position of its _check_instance_health task
    coord_active,       \* InstanceCoordinator.active_requests: request -> instance id
    active_requests,    \* LoadBalancer.active_requests: request -> instance id
    route,              \* request -> position of its route_request call
    strategy,           \* LoadBalancer.strategy
    healthy_order,      \* iteration order of healthy_instances: list(healthy_instances)
    round_robin_index,  \* LoadBalancer._round_robin_index
    routing_stats,      \* LoadBalancer.routing_stats
    instance_performance, \* LoadBalancer.instance_performance: id -> record
    alert_callbacks,    \* HealthMonitor.alert_callbacks: what each callback does
    dispatch,           \* position of one _trigger_alert call
    request_history,    \* LoadBalancer.request_history: completed requests
    browser,            \* one BrowserInstance followed on its own
    instance_health_history, \* HealthMonitor: per instance, its probe results
    chat,               \* request -> position of its chat_completions call
    ev                  \* what the last step did: call, argument, return, alerts

vars == <<phase, initial_count, boot_i, instances, healthy_instances,
          unhealthy_instances, instance_metrics, op_creating, removing, scale,
          last_scale_action, is_monitoring, mon_pc, probe, coord_active,
          active_requests, route, strategy, healthy_order, round_robin_index,
          routing_stats, instance_performance, alert_callbacks, dispatch,
          request_history, browser,
          instance_health_history, chat, ev>>

pool == <<instances, healthy_instances, unhealthy_instances, instance_metrics>>
tasks == <<op_creating, removing, scale, last_scale_action, coord_active>>
monitor == <<is_monitoring, mon_pc, probe>>
balancer == <<active_requests, route>>
boot == <<phase, initial_count, boot_i>>

\* State of the components that are followed on their own (the load balancer's
\* strategies and accounting, the alert dispatcher): the specification of the
\* whole server, Spec, abstracts from it and leaves it as Init sets it.
isolated == <<strategy, healthy_order, round_robin_index, routing_stats,
              instance_performance, alert_callbacks, dispatch,
              request_history, browser, instance_health_history, chat>>

\* ---------------------------------------------------------------- helpers
Event(op, id, ret, alerts) == [op |-> op, id |-> id, ret |-> ret, alerts |-> alerts]

\* A step that returns nothing to a caller and delivers no alert.
Quiet == Event("step", NoId, "None", {})

Registered == DOMAIN instances

\* A returned bool as ev carries it.
BoolRet(x) == IF x THEN "True" ELSE "False"

\* a < b for two fractions [num, den] (floats of the code).
Less(a, b) == a.num * b.den < b.num * a.den

IdleProbe == [pc |-> "none", needed |-> 0]
IdleRoute == [pc |-> "idle", attempt |-> 0]
IdleScale == [pc |-> "idle", target |-> NoId, started |-> "none"]
NoScaling == [e \in Evaluations |-> IdleScale]
IdleDispatch == [pc |-> "idle", next |-> 1, received |-> {}, raised |-> FALSE]

\* No BrowserInstance is followed on its own.
NoBrowser == [status |-> "none"]

\* HealthMonitor.__init__: instance_health_history = {} (no entry for i: <<>>).
NoHealthHistory == [i \in Ids |-> <<>>]

\* Request identifiers in use at once when the load balancer is followed alone.
MaxLBRequests == 2
LBRequests == 1..MaxLBRequests

\* No chat_completions call is past its route_request.
IdleChat == [pc |-> "idle", instance_id |-> NoId]
NoChat == [r \in LBRequests |-> IdleChat]

\* LoadBalancer.__init__: routing_stats (strategy_usage is not followed).
NoStats == [total_requests |-> 0, successful_routes |-> 0,
            failed_routes |-> 0, retries |-> 0]

\* LoadBalancer.__init__: instance_performance = {}.
NoPerformance == [i \in {} |-> 0]

\* LoadBalancer.__init__ and HealthMonitor.__init__ for the isolated state.
IsolatedIdle ==
    /\ strategy = "least_busy"
    /\ healthy_order = <<>>
    /\ round_robin_index = 0
    /\ routing_stats = NoStats
    /\ instance_performance = NoPerformance
    /\ alert_callbacks = <<>>
    /\ dispatch = IdleDispatch
    /\ request_history = <<>>
    /\ browser = NoBrowser
    /\ instance_health_history = NoHealthHistory
    /\ chat = NoChat

\* Ids some live object still refers to; uuid4 never returns one of them.
Referenced ==
    Registered \cup healthy_instances \cup unhealthy_instances \cup instance_metrics
    \cup {i \in Ids : removing[i] > 0 \/ probe[i].pc # "none"}
    \cup {active_requests[r] : r \in Requests} \cup {scale[e].target : e \in Evaluations}
    \cup {coord_active[q] : q \in CoordRequests}

FreshIds == Ids \ Referenced

\* uuid.uuid4() in BrowserManager.create_instance.
NewId == CHOOSE i \in FreshIds : \A j \in FreshIds : i <= j

\* Outcome of BrowserInstance.initialize: the status it leaves.  The status
\* "ready_fallback" written by _setup_fallback_mode is overwritten with "ready"
\* before initialize returns, so no registered instance ever carries it.
InitializeOutcomes == {"ready", "failed"}

CanFinish(st) == st = "failed" \/ FreshIds # {}


\* -------------------------------------------------- pool: create / remove
\* BrowserManager.create_instance, success branch: the registry gains the id.
BMRegister(i, st) == instances' = instances @@ (i :> st)

\* A coordinator that records a new instance's metrics but waits for a probe
\* before it lists the instance as healthy.
TrackCreatedUnlisted(i) ==
    /\ instance_metrics' = instance_metrics \cup {i}
    /\ UNCHANGED healthy_instances

\* InstanceCoordinator.create_instance / initialize after a successful build.
TrackCreated(i) ==
    /\ healthy_instances' = healthy_instances \cup {i}
    /\ instance_metrics' = instance_metrics \cup {i}

\* What a finished build does to the pool: st is BrowserInstance.initialize's outcome.
CreateFinish(st) ==
    IF st = "failed"
    THEN UNCHANGED pool
    ELSE /\ BMRegister(NewId, st)
         /\ TrackCreated(NewId)
         /\ UNCHANGED unhealthy_instances

CreatedId(st) == IF st = "failed" THEN NoId ELSE NewId
CreatedRet(st) == IF st = "failed" THEN "None" ELSE "Id"

\* The size check of InstanceCoordinator.create_instance.
AtCapacityOf(reg) == Cardinality(reg) >= max_instances
AtCapacity == AtCapacityOf(Registered)

\* A floor check written with "<" where the code has "<=".
FloorProtectedStrict == Cardinality(healthy_instances) < min_instances

\* The floor check of InstanceCoordinator.remove_instance.
FloorProtected == Cardinality(healthy_instances) <= min_instances

\* BrowserManager.remove_instance after cleanup(): del instances[id].
BMUnregister(i) == instances' = [j \in Registered \ {i} |-> instances[j]]

\* InstanceCoordinator.remove_instance after a successful removal.
Untrack(i) ==
    /\ healthy_instances' = healthy_instances \ {i}
    /\ unhealthy_instances' = unhealthy_instances \ {i}
    /\ instance_metrics' = instance_metrics \ {i}

\* What a finished cleanup does to the pool; a second removal of the same id
\* hits KeyError in del, which is caught and reported as False.
RemoveFinish(i) ==
    IF i \in Registered
    THEN BMUnregister(i) /\ Untrack(i)
    ELSE UNCHANGED pool

RemovedRet(i) == IF i \in Registered THEN "True" ELSE "False"

\* The ids an operator can name: those in use, and one that names nothing.
KnownIds == Referenced \cup (IF FreshIds = {} THEN {} ELSE {NewId})

InFlightRemovals == {i \in Ids : removing[i] > 0}

\* ------------------------------------------------------------- bootstrap
\* One iteration of the loop of InstanceCoordinator.initialize.
InitializeStep ==
    /\ phase = "boot"
    /\ boot_i < initial_count
    /\ \E st \in InitializeOutcomes :
          /\ CanFinish(st)
          /\ CreateFinish(st)
          /\ ev' = Quiet
    /\ boot_i' = boot_i + 1
    /\ UNCHANGED <<phase, initial_count, tasks, monitor, balancer>>
    /\ UNCHANGED isolated

\* An initialize that reports success whatever was created.
NoneCreatedNever == FALSE

\* initialize: "if len(self.healthy_instances) == 0".
NoneCreated == healthy_instances = {}

\* The end of initialize and of initialize_multi_instance_system: the server
\* exits when no instance was created, else the monitor is started.
InitializeReturn ==
    /\ phase = "boot"
    /\ boot_i >= initial_count
    /\ IF NoneCreated
       THEN /\ phase' = "failed"
            /\ ev' = Event("initialize", NoId, "False", {})
            /\ UNCHANGED <<is_monitoring, mon_pc>>
       ELSE /\ phase' = "running"
            /\ is_monitoring' = TRUE
            /\ mon_pc' = "start"
            /\ ev' = Event("initialize", NoId, "True", {})
    \* initial_count and the loop index are not read again: forgotten.
    /\ initial_count' = 0
    /\ boot_i' = 0
    /\ UNCHANGED <<pool, tasks, probe, balancer>>
    /\ UNCHANGED isolated

\* ------------------------------------------------ operator create/remove
\* POST /instances -> InstanceCoordinator.create_instance up to its await.
CreateCall ==
    /\ phase = "running"
    /\ IF AtCapacity
       THEN /\ ev' = Quiet
            /\ UNCHANGED op_creating
       ELSE /\ op_creating < MaxOpCreate
            /\ op_creating' = op_creating + 1
            /\ ev' = Quiet
    /\ UNCHANGED <<boot, pool, removing, scale, last_scale_action, coord_active, monitor, balancer>>
    /\ UNCHANGED isolated

\* The build finished: BrowserManager.create_instance returns into create_instance.
CreateReturn ==
    /\ phase = "running"
    /\ op_creating > 0
    /\ \E st \in InitializeOutcomes :
          /\ CanFinish(st)
          /\ CreateFinish(st)
          /\ ev' = Event("create_instance_done", CreatedId(st), CreatedRet(st), {})
    /\ op_creating' = op_creating - 1
    /\ UNCHANGED <<boot, removing, scale, last_scale_action, coord_active, monitor, balancer>>
    /\ UNCHANGED isolated

\* DELETE /instances/{id} -> InstanceCoordinator.remove_instance up to its await.
RemoveCall(i) ==
    /\ phase = "running"
    /\ i \in KnownIds
    /\ IF FloorProtected \/ i \notin Registered
       THEN /\ ev' = Event("remove_instance", i, "False", {})
            /\ UNCHANGED removing
       ELSE /\ Cardinality(InFlightRemovals) < MaxOpRemove
            /\ removing[i] = 0
            /\ removing' = [removing EXCEPT ![i] = 1]
            /\ ev' = Event("remove_instance", i, "await", {})
    /\ UNCHANGED <<boot, pool, op_creating, scale, last_scale_action, coord_active, monitor, balancer>>
    /\ UNCHANGED isolated

\* cleanup() finished: BrowserManager.remove_instance returns into remove_instance.
RemoveReturn(i) ==
    /\ phase = "running"
    /\ removing[i] > 0
    /\ RemoveFinish(i)
    /\ removing' = [removing EXCEPT ![i] = 0]
    /\ ev' = Quiet
    /\ UNCHANGED <<boot, op_creating, scale, last_scale_action, coord_active, monitor, balancer>>
    /\ UNCHANGED isolated


\* ------------------------------------------- coordinator request tracking
\* Active requests InstanceCoordinator.active_requests binds to instance i.
CoordLoad(i) == Cardinality({q \in CoordRequests : coord_active[q] = i})

\* min(instance_loads.items(), key=load) over the healthy set; among equal
\* loads the first in the set's iteration order wins, which for uuid strings
\* is any of them.
LeastLoaded == {i \in healthy_instances :
                   \A j \in healthy_instances : CoordLoad(i) <= CoordLoad(j)}

\* InstanceCoordinator.handle_request with the configured least_busy strategy.
HandleRequest(q) ==
    /\ phase = "running"
    /\ coord_active[q] = NoId
    /\ IF healthy_instances = {}
       THEN /\ ev' = Event("handle_request", NoId, "None", {})
            /\ UNCHANGED coord_active
       ELSE \E i \in LeastLoaded :
              /\ coord_active' = [coord_active EXCEPT ![q] = i]
              /\ ev' = Event("handle_request", i, "Id", {})
    /\ UNCHANGED <<boot, pool, op_creating, removing, scale, last_scale_action,
                   monitor, balancer>>
    /\ UNCHANGED isolated

\* InstanceCoordinator.complete_request: pops the entry.
CoordCompleteRequest(q) ==
    /\ phase = "running"
    /\ coord_active[q] # NoId
    /\ coord_active' = [coord_active EXCEPT ![q] = NoId]
    /\ ev' = Quiet
    /\ UNCHANGED <<boot, pool, op_creating, removing, scale, last_scale_action,
                   monitor, balancer>>
    /\ UNCHANGED isolated

\* ------------------------------------------------------------ autoscaling
\* instances.scale_up_threshold and instances.scale_down_threshold (defaults).
scale_up_threshold == [num |-> 8, den |-> 10]
scale_down_threshold == [num |-> 3, den |-> 10]

\* len(self.active_requests) of the coordinator.
CoordActiveCount == Cardinality({q \in CoordRequests : coord_active[q] # NoId})

\* _calculate_current_load: 1.0 with no healthy instance, else
\* min(active_count / available_count, 1.0).
CalculateCurrentLoad ==
    IF healthy_instances = {}
    THEN [num |-> 1, den |-> 1]
    ELSE IF CoordActiveCount > Cardinality(healthy_instances)
    THEN [num |-> 1, den |-> 1]
    ELSE [num |-> CoordActiveCount, den |-> Cardinality(healthy_instances)]

\* should_scale_up = current_load > self.scale_up_threshold.
ShouldScaleUp == Less(scale_up_threshold, CalculateCurrentLoad)

\* should_scale_down = current_load < self.scale_down_threshold.
ShouldScaleDown == Less(CalculateCurrentLoad, scale_down_threshold)

\* scale_instances: "self.last_scale_action and time.time() -
\* self.last_scale_action < self.scale_cooldown".
InCooldown == last_scale_action = "recent"

\* Call e of InstanceCoordinator.scale_instances up to the await inside
\* _scale_up or _scale_down (auto_scale is on, its default).
ScaleCall(e) ==
    /\ phase = "running"
    /\ scale[e].pc = "idle"
    /\ IF InCooldown
       THEN /\ ev' = Event("scale_instances", NoId, "cooldown", {})
            /\ UNCHANGED scale
       ELSE IF ShouldScaleUp /\ Cardinality(healthy_instances) < max_instances
       THEN IF AtCapacity
            THEN /\ ev' = Event("scale_up", NoId, "None", {})
                 /\ UNCHANGED scale
            ELSE /\ scale' = [scale EXCEPT ![e] =
                                [pc |-> "up", target |-> NoId, started |-> "recent"]]
                 /\ ev' = Event("scale_up", NoId, "await", {})
       ELSE IF ShouldScaleDown /\ Cardinality(healthy_instances) > min_instances
       THEN \E t \in LeastLoaded :
              IF FloorProtected \/ t \notin Registered
              THEN /\ ev' = Event("scale_down", t, "False", {})
                   /\ UNCHANGED scale
              ELSE /\ scale' = [scale EXCEPT ![e] =
                                  [pc |-> "down", target |-> t, started |-> "recent"]]
                   /\ ev' = Event("scale_down", t, "await", {})
       ELSE /\ ev' = Event("scale_instances", NoId, "none", {})
            /\ UNCHANGED scale
    /\ UNCHANGED <<boot, pool, op_creating, removing, last_scale_action,
                   coord_active, monitor, balancer>>
    /\ UNCHANGED isolated

\* _scale_up of call e after create_instance returned.
ScaleUpReturn(e) ==
    /\ phase = "running"
    /\ scale[e].pc = "up"
    /\ \E st \in InitializeOutcomes :
          /\ CanFinish(st)
          /\ CreateFinish(st)
          /\ last_scale_action' = IF st = "failed" THEN last_scale_action ELSE "recent"
          /\ ev' = Quiet
    /\ scale' = [scale EXCEPT ![e] = IdleScale]
    /\ UNCHANGED <<boot, op_creating, removing, coord_active, monitor, balancer>>
    /\ UNCHANGED isolated

\* _scale_down of call e after remove_instance returned.
ScaleDownReturn(e) ==
    /\ phase = "running"
    /\ scale[e].pc = "down"
    /\ RemoveFinish(scale[e].target)
    /\ last_scale_action' = IF scale[e].target \in Registered THEN "recent"
                            ELSE last_scale_action
    /\ ev' = Quiet
    /\ scale' = [scale EXCEPT ![e] = IdleScale]
    /\ UNCHANGED <<boot, op_creating, removing, coord_active, monitor, balancer>>
    /\ UNCHANGED isolated

\* scale_cooldown seconds pass: every time stamp taken before is old.
CooldownElapses ==
    /\ phase = "running"
    /\ \/ last_scale_action = "recent"
       \/ \E e \in Evaluations : scale[e].started = "recent"
    /\ last_scale_action' = IF last_scale_action = "recent" THEN "old"
                            ELSE last_scale_action
    /\ scale' = [e \in Evaluations |->
                   IF scale[e].started = "recent"
                   THEN [scale[e] EXCEPT !.started = "old"] ELSE scale[e]]
    /\ ev' = Quiet
    /\ UNCHANGED <<boot, pool, op_creating, removing, coord_active,
                   monitor, balancer>>
    /\ UNCHANGED isolated


\* ---------------------------------------------------------- load balancer
\* Active requests LoadBalancer.active_requests binds to instance i.
ActiveOn(i) == {r \in DOMAIN active_requests : active_requests[r] = i}

\* _least_busy_strategy (the configured default, never overridden by the
\* server): the healthy instances of minimum active-request count; among
\* equal counts the set's iteration order decides.
LeastBusy == {i \in healthy_instances :
                 \A j \in healthy_instances :
                     Cardinality(ActiveOn(i)) <= Cardinality(ActiveOn(j))}

\* A validation that looks at nothing.
ValidateInstanceSkipped(i) == i \in Ids

\* LoadBalancer._validate_instance.
ValidateInstance(i) ==
    /\ i \in healthy_instances
    /\ i \in Registered
    /\ instances[i] = "ready"

\* A failed attempt of route_request: sleep and retry while attempts remain,
\* else give up and return None.
RouteRetry(r) ==
    IF route[r].attempt < max_retries
    THEN /\ route' = [route EXCEPT ![r] = [pc |-> "sleep", attempt |-> @.attempt + 1]]
         /\ ev' = Event("route_request", NoId, "retry", {})
    ELSE /\ route' = [route EXCEPT ![r] = IdleRoute]
         /\ ev' = Event("route_request", NoId, "None", {})

\* One attempt of LoadBalancer.route_request: select, validate, track. The
\* three run without suspension; the sleeps between attempts suspend.
RouteAttempt(r) ==
    /\ phase = "running"
    /\ active_requests[r] = NoId
    /\ IF healthy_instances = {}
       THEN RouteRetry(r) /\ UNCHANGED active_requests
       ELSE \E i \in LeastBusy :
              IF ValidateInstance(i)
              THEN /\ active_requests' = [active_requests EXCEPT ![r] = i]
                   /\ route' = [route EXCEPT ![r] = IdleRoute]
                   /\ ev' = Event("route_request", i, "Id", {})
              ELSE RouteRetry(r) /\ UNCHANGED active_requests
    /\ UNCHANGED <<boot, pool, tasks, monitor>>
    /\ UNCHANGED isolated

\* LoadBalancer.complete_request called by the request-handling layer.
CompleteRequest(r) ==
    /\ phase = "running"
    /\ active_requests[r] # NoId
    /\ active_requests' = [active_requests EXCEPT ![r] = NoId]
    /\ ev' = Quiet
    /\ UNCHANGED <<boot, pool, tasks, monitor, route>>
    /\ UNCHANGED isolated

\* LoadBalancer.handle_instance_failure: every active request bound to the
\* instance is completed as a failure.
FailActive(i) ==
    active_requests' = [r \in Requests |->
                          IF active_requests[r] = i THEN NoId ELSE active_requests[r]]


\* --------------------------------------------------------- health monitor
\* A failure handler that alerts on every failed probe.
WasHealthyAlways(i) == i \in Ids

\* _handle_instance_failure: "was_healthy = instance_id in healthy_instances".
WasHealthy(i) == i \in healthy_instances

\* A success handler that alerts on every successful probe.
WasUnhealthyAlways(i) == i \in Ids

\* _record_healthy_check: "if instance_id in self.coordinator.unhealthy_instances".
WasUnhealthy(i) == i \in unhealthy_instances

\* _handle_instance_failure: the membership update.
MarkUnhealthy(i) ==
    /\ unhealthy_instances' = unhealthy_instances \cup {i}
    /\ healthy_instances' = healthy_instances \ {i}

\* A membership update that adds to healthy_instances without the discard
\* from unhealthy_instances.
MarkHealthyKeepsUnhealthy(i) ==
    /\ healthy_instances' = healthy_instances \cup {i}
    /\ UNCHANGED unhealthy_instances

\* _record_healthy_check: the membership update.
MarkHealthy(i) ==
    /\ healthy_instances' = healthy_instances \cup {i}
    /\ unhealthy_instances' = unhealthy_instances \ {i}

Membership(i) ==
    IF i \in healthy_instances THEN "was_healthy"
    ELSE IF i \in unhealthy_instances THEN "was_unhealthy"
    ELSE "was_neither"

\* _check_replacement_needed: "needed = min_instances - healthy_count".
NeededBelow(h, floor) ==
    IF Cardinality(h) < floor THEN floor - Cardinality(h) ELSE 0

ReplacementNeeded(h) == NeededBelow(h, min_instances)

\* The loop of _check_replacement_needed with k creations to go over the
\* registry reg: create_instance returns None at once when the pool is full
\* (so do all remaining iterations), else it suspends in the build.
ReplaceLoop(k, reg) ==
    IF k = 0 \/ AtCapacityOf(reg)
    THEN IdleProbe
    ELSE [pc |-> "replace", needed |-> k]

\* _handle_instance_failure for a probe that ended op ("probe_fail": returned
\* False or raised; "probe_timeout": wait_for expired). gui: a GUI websocket
\* client is connected, so the alert callback handle_health_alert broadcasts
\* the alert first: json.dumps raises on the alert's datetime values, the
\* callback's except clause logs it and handle_instance_failure is not
\* reached. The callback never suspends.
ApplyFailure(i, op, gui) ==
    /\ MarkUnhealthy(i)
    /\ UNCHANGED <<instances, instance_metrics>>
    /\ IF WasHealthy(i)
       THEN /\ ev' = Event(op, i, "was_healthy", {<<"instance_failed", i>>})
            /\ IF gui THEN UNCHANGED active_requests ELSE FailActive(i)
            /\ probe' = [probe EXCEPT ![i] =
                           ReplaceLoop(ReplacementNeeded(healthy_instances'),
                                       Registered)]
       ELSE /\ ev' = Event(op, i, Membership(i), {})
            /\ probe' = [probe EXCEPT ![i] = IdleProbe]
            /\ UNCHANGED active_requests

\* while self.is_monitoring: _perform_health_checks creates one task per
\* registered instance (or returns when there is none).
MonitorCycle ==
    /\ phase = "running"
    /\ is_monitoring
    /\ mon_pc = "start"
    /\ IF Registered = {}
       THEN /\ mon_pc' = "analyze"
            /\ UNCHANGED probe
       ELSE /\ mon_pc' = "gather"
            /\ probe' = [i \in Ids |-> IF i \in Registered
                                       THEN [pc |-> "run", needed |-> 0]
                                       ELSE probe[i]]
    /\ ev' = Quiet
    /\ UNCHANGED <<boot, pool, tasks, is_monitoring, balancer>>
    /\ UNCHANGED isolated

\* An exception inside _perform_health_checks is caught there and logged.
MonitorChecksError ==
    /\ phase = "running"
    /\ is_monitoring
    /\ mon_pc = "start"
    /\ mon_pc' = "analyze"
    /\ ev' = Quiet
    /\ UNCHANGED <<boot, pool, tasks, is_monitoring, probe, balancer>>
    /\ UNCHANGED isolated

\* instance.health_check() resolved True: _record_healthy_check. The alert
\* callback returns or raises without suspending, the membership update
\* follows in the same step.
ProbeSucceeds(i) ==
    /\ phase = "running"
    /\ probe[i].pc = "run"
    /\ i \in Registered
    /\ ev' = IF WasUnhealthy(i)
             THEN Event("probe_ok", i, "was_unhealthy", {<<"instance_recovered", i>>})
             ELSE Event("probe_ok", i, Membership(i), {})
    /\ MarkHealthy(i)
    /\ probe' = [probe EXCEPT ![i] = IdleProbe]
    /\ UNCHANGED <<boot, instances, instance_metrics, tasks, is_monitoring, mon_pc, balancer>>
    /\ UNCHANGED isolated

\* instance.health_check() resolved False or raised.
ProbeFails(i) ==
    /\ phase = "running"
    /\ probe[i].pc = "run"
    /\ \E gui \in BOOLEAN : ApplyFailure(i, "probe_fail", gui)
    /\ UNCHANGED <<boot, tasks, is_monitoring, mon_pc, route>>
    /\ UNCHANGED isolated

\* instance.health_check() will not answer within instance_timeout.
ProbeHangs(i) ==
    /\ phase = "running"
    /\ probe[i].pc = "run"
    /\ probe' = [probe EXCEPT ![i] = [pc |-> "hung", needed |-> 0]]
    /\ ev' = Quiet
    /\ UNCHANGED <<boot, pool, tasks, is_monitoring, mon_pc, balancer>>
    /\ UNCHANGED isolated

\* A timeout handler that only logs: the probe task ends, nothing is marked.
TimeoutOnlyLogged(i, gui) ==
    /\ probe' = [probe EXCEPT ![i] = IdleProbe]
    /\ ev' = Event("probe_timeout", i, Membership(i), {})
    /\ UNCHANGED <<pool, active_requests>>

\* "except asyncio.TimeoutError": the expired probe is handled as a failure.
TimeoutOutcome(i, gui) == ApplyFailure(i, "probe_timeout", gui)

\* asyncio.wait_for expires: asyncio.TimeoutError in _check_instance_health.
ProbeTimeout(i) ==
    /\ phase = "running"
    /\ probe[i].pc = "hung"
    /\ \E gui \in BOOLEAN : TimeoutOutcome(i, gui)
    /\ UNCHANGED <<boot, tasks, is_monitoring, mon_pc, route>>
    /\ UNCHANGED isolated

\* A replacement build finished inside _check_replacement_needed.
ReplaceReturn(i) ==
    /\ phase = "running"
    /\ probe[i].pc = "replace"
    /\ \E st \in InitializeOutcomes :
          /\ CanFinish(st)
          /\ CreateFinish(st)
          /\ ev' = Quiet
    /\ probe' = [probe EXCEPT ![i] = ReplaceLoop(probe[i].needed - 1, DOMAIN instances')]
    /\ UNCHANGED <<boot, tasks, is_monitoring, mon_pc, balancer>>
    /\ UNCHANGED isolated

\* asyncio.gather returned: every probe task of the cycle has finished.
MonitorGathered ==
    /\ phase = "running"
    /\ mon_pc = "gather"
    /\ \A i \in Ids : probe[i].pc = "none"
    /\ mon_pc' = "analyze"
    /\ ev' = Quiet
    /\ UNCHANGED <<boot, pool, tasks, is_monitoring, probe, balancer>>
    /\ UNCHANGED isolated

\* _check_alert_thresholds: failure rate above 0.2, average probe time above
\* the threshold (hrt: it depends on measured times), no healthy instance.
AnalysisAlerts(hrt) ==
    IF Registered = {} THEN {}
    ELSE (IF 5 * Cardinality(unhealthy_instances) > Cardinality(Registered)
          THEN {<<"high_failure_rate", NoId>>} ELSE {})
         \cup (IF hrt THEN {<<"high_response_time", NoId>>} ELSE {})
         \cup (IF healthy_instances = {}
               THEN {<<"no_healthy_instances", NoId>>} ELSE {})

\* _analyze_system_health, _cleanup_old_data, then asyncio.sleep(interval).
MonitorAnalyze ==
    /\ phase = "running"
    /\ mon_pc = "analyze"
    /\ mon_pc' = "sleep"
    /\ \E hrt \in BOOLEAN : ev' = Event("analyze_system_health", NoId, "None", AnalysisAlerts(hrt))
    /\ UNCHANGED <<boot, pool, tasks, is_monitoring, probe, balancer>>
    /\ UNCHANGED isolated

\* An unexpected exception leaves the while loop: it is logged and the
\* handler sleeps 5 s.
MonitorLoopError ==
    /\ phase = "running"
    /\ mon_pc = "analyze"
    /\ mon_pc' = "recover"
    /\ ev' = Quiet
    /\ UNCHANGED <<boot, pool, tasks, is_monitoring, probe, balancer>>
    /\ UNCHANGED isolated

\* A handler that logs the error and lets the loop task end.
RestartPcNever == "off"

\* The position _monitoring_loop's handler reaches after its sleep:
\* "if self.is_monitoring: create_task(self._monitoring_loop())".
RestartPc == IF is_monitoring THEN "start" ELSE "off"

MonitorRestart ==
    /\ phase = "running"
    /\ mon_pc = "recover"
    /\ mon_pc' = RestartPc
    /\ ev' = Event("monitor_restart", NoId, "None", {})
    /\ UNCHANGED <<boot, pool, tasks, is_monitoring, probe, balancer>>
    /\ UNCHANGED isolated

\* asyncio.sleep(health_check_interval) returned: next iteration.
MonitorWake ==
    /\ phase = "running"
    /\ mon_pc = "sleep"
    /\ mon_pc' = IF is_monitoring THEN "start" ELSE "off"
    /\ ev' = Quiet
    /\ UNCHANGED <<boot, pool, tasks, is_monitoring, probe, balancer>>
    /\ UNCHANGED isolated

\* Server shutdown (lifespan): stop_monitoring cancels the loop task and,
\* through gather, the probe tasks of the running cycle; then
\* LoadBalancer.cleanup completes every active request and
\* InstanceCoordinator.cleanup removes every instance and clears its sets.
\* No request or operator call is served any more.
StopMonitoring ==
    /\ phase = "running"
    /\ phase' = "stopped"
    /\ is_monitoring' = FALSE
    /\ mon_pc' = "off"
    /\ probe' = [i \in Ids |-> IdleProbe]
    /\ active_requests' = [r \in Requests |-> NoId]
    /\ route' = [r \in Requests |-> IdleRoute]
    /\ instances' = [i \in {} |-> "ready"]
    /\ healthy_instances' = {}
    /\ unhealthy_instances' = {}
    /\ instance_metrics' = {}
    /\ coord_active' = [q \in CoordRequests |-> NoId]
    /\ op_creating' = 0
    /\ removing' = [i \in Ids |-> 0]
    /\ scale' = NoScaling
    /\ ev' = Quiet
    /\ UNCHANGED <<initial_count, boot_i, last_scale_action>>
    /\ UNCHANGED isolated

\* ---------------------------------------------------------- specification
Init ==
    /\ phase = "boot"
    /\ initial_count \in 0..MaxInitialCount
    /\ boot_i = 0
    /\ instances = [i \in {} |-> "ready"]
    /\ healthy_instances = {}
    /\ unhealthy_instances = {}
    /\ instance_metrics = {}
    /\ op_creating = 0
    /\ removing = [i \in Ids |-> 0]
    /\ scale = NoScaling
    /\ last_scale_action = "none"
    /\ is_monitoring = FALSE
    /\ mon_pc = "off"
    /\ probe = [i \in Ids |-> IdleProbe]
    /\ coord_active = [q \in CoordRequests |-> NoId]
    /\ active_requests = [r \in Requests |-> NoId]
    /\ route = [r \in Requests |-> IdleRoute]
    /\ IsolatedIdle
    /\ ev = Quiet

MonitorNext ==
    \/ MonitorCycle
    \/ MonitorGathered
    \/ MonitorAnalyze
    \/ MonitorRestart
    \/ MonitorWake
    \/ \E i \in Ids : ProbeSucceeds(i)
    \/ \E i \in Ids : ProbeFails(i)
    \/ \E i \in Ids : ProbeTimeout(i)
    \/ \E i \in Ids : ReplaceReturn(i)

BootNext ==
    \/ InitializeStep
    \/ InitializeReturn

OperatorNext ==
    \/ CreateCall
    \/ CreateReturn
    \/ \E i \in Ids : RemoveCall(i)
    \/ \E i \in Ids : RemoveReturn(i)

RoutingNext ==
    \/ \E r \in Requests : RouteAttempt(r)
    \/ \E r \in Requests : CompleteRequest(r)

ScalingNext ==
    \/ \E q \in CoordRequests : HandleRequest(q)
    \/ \E q \in CoordRequests : CoordCompleteRequest(q)
    \/ \E e \in Evaluations : ScaleCall(e)
    \/ \E e \in Evaluations : ScaleUpReturn(e)
    \/ \E e \in Evaluations : ScaleDownReturn(e)
    \/ CooldownElapses

MonitorEnvironment ==
    \/ MonitorChecksError
    \/ MonitorLoopError
    \/ \E i \in Ids : ProbeHangs(i)
    \/ StopMonitoring

\* The server: bootstrap, operator calls, routing, the health monitor.
Next ==
    \/ BootNext
    \/ OperatorNext
    \/ RoutingNext
    \/ MonitorEnvironment
    \/ MonitorNext

Spec == Init /\ [][Next]_vars

\* The server while no operator removes an instance: bootstrap, operator
\* creations, routing, the health monitor and what can go wrong in it.
NextMonitoring ==
    \/ BootNext
    \/ CreateCall
    \/ CreateReturn
    \/ RoutingNext
    \/ MonitorEnvironment
    \/ MonitorNext

\* The monitor task makes progress whenever it can: the event loop runs every
\* ready task, wait_for's timer fires, builds and alert callbacks return.
SpecFair == Init /\ [][NextMonitoring]_vars /\ WF_vars(MonitorNext)

\* A running server between two monitor cycles: at least one instance is
\* registered, each ready and in one membership set; nothing is in flight.
InitScaling ==
    /\ phase = "running"
    /\ initial_count = 1
    /\ boot_i = 1
    /\ \E S \in SUBSET Ids :
          /\ S # {}
          /\ Cardinality(S) <= max_instances
          /\ instances = [i \in S |-> "ready"]
          /\ healthy_instances \in SUBSET S
          /\ unhealthy_instances = S \ healthy_instances
          /\ instance_metrics = S
    /\ op_creating = 0
    /\ removing = [i \in Ids |-> 0]
    /\ scale = NoScaling
    /\ last_scale_action = "none"
    /\ is_monitoring = TRUE
    /\ mon_pc = "sleep"
    /\ probe = [i \in Ids |-> IdleProbe]
    /\ coord_active = [q \in CoordRequests |-> NoId]
    /\ active_requests = [r \in Requests |-> NoId]
    /\ route = [r \in Requests |-> IdleRoute]
    /\ IsolatedIdle
    /\ ev = Quiet

\* Autoscaling and the requests that make its load: calls of
\* scale_instances, requests tracked by the coordinator, requests routed by
\* the load balancer.
NextScaling ==
    \/ ScalingNext
    \/ RoutingNext

SpecScaling == InitScaling /\ [][NextScaling]_vars

\* ------------------------------------------------------- alert dispatcher
\* Largest number of registered alert callbacks explored.
MaxCallbacks == 3

\* Every variable of the server specification but ev.
server == <<boot, pool, tasks, monitor, balancer>>

\* The server's objects as their constructors leave them.
Constructed ==
    /\ initial_count = 0
    /\ boot_i = 0
    /\ instances = [i \in {} |-> "ready"]
    /\ healthy_instances = {}
    /\ unhealthy_instances = {}
    /\ instance_metrics = {}
    /\ op_creating = 0
    /\ removing = [i \in Ids |-> 0]
    /\ scale = NoScaling
    /\ last_scale_action = "none"
    /\ is_monitoring = FALSE
    /\ mon_pc = "off"
    /\ probe = [i \in Ids |-> IdleProbe]
    /\ coord_active = [q \in CoordRequests |-> NoId]
    /\ active_requests = [r \in Requests |-> NoId]
    /\ route = [r \in Requests |-> IdleRoute]

\* What a registered callback does when it is called with an alert.
CallbackKinds == {"returns", "raises"}

\* A loop body without the try/except: the exception leaves _trigger_alert
\* and the callbacks after the raising one are not called.
AfterCallbackUnguarded(d, kind) ==
    IF kind = "raises"
    THEN [d EXCEPT !.pc = "done", !.received = @ \cup {d.next}, !.raised = TRUE]
    ELSE [d EXCEPT !.next = @ + 1, !.received = @ \cup {d.next}]

\* One iteration of the loop of _trigger_alert over callback d.next, which
\* does kind: "except Exception" logs what it raises and the loop goes on.
AfterCallback(d, kind) ==
    [d EXCEPT !.next = @ + 1, !.received = @ \cup {d.next}]

\* HealthMonitor.add_alert_callback.
AddAlertCallback(kind) ==
    /\ phase = "alerts"
    /\ Len(alert_callbacks) < MaxCallbacks
    /\ alert_callbacks' = Append(alert_callbacks, kind)
    /\ ev' = Quiet
    /\ UNCHANGED <<server, strategy, healthy_order, round_robin_index,
                   routing_stats, instance_performance, dispatch,
                   request_history, browser, instance_health_history, chat>>

\* _trigger_alert is called: the alert is built and the loop starts.
TriggerAlert ==
    /\ phase = "alerts"
    /\ dispatch.pc \in {"idle", "done"}
    /\ dispatch' = [pc |-> "loop", next |-> 1, received |-> {}, raised |-> FALSE]
    /\ ev' = Quiet
    /\ UNCHANGED <<server, strategy, healthy_order, round_robin_index,
                   routing_stats, instance_performance, alert_callbacks,
                   request_history, browser, instance_health_history, chat>>

\* The loop calls (and, for a coroutine function, awaits) the next callback.
CallbackRuns ==
    /\ phase = "alerts"
    /\ dispatch.pc = "loop"
    /\ dispatch.next <= Len(alert_callbacks)
    /\ dispatch' = AfterCallback(dispatch, alert_callbacks[dispatch.next])
    /\ ev' = Quiet
    /\ UNCHANGED <<server, strategy, healthy_order, round_robin_index,
                   routing_stats, instance_performance, alert_callbacks,
                   request_history, browser, instance_health_history, chat>>

\* The list is exhausted: _trigger_alert returns to its caller.
TriggerAlertReturns ==
    /\ phase = "alerts"
    /\ dispatch.pc = "loop"
    /\ dispatch.next > Len(alert_callbacks)
    /\ dispatch' = [dispatch EXCEPT !.pc = "done"]
    /\ ev' = Quiet
    /\ UNCHANGED <<server, strategy, healthy_order, round_robin_index,
                   routing_stats, instance_performance, alert_callbacks,
                   request_history, browser, instance_health_history, chat>>

InitAlerts ==
    /\ phase = "alerts"
    /\ Constructed
    /\ IsolatedIdle
    /\ ev = Quiet

NextAlerts ==
    \/ \E kind \in CallbackKinds : AddAlertCallback(kind)
    \/ TriggerAlert
    \/ CallbackRuns
    \/ TriggerAlertReturns

\* The health monitor's alert dispatcher on its own.
SpecAlerts == InitAlerts /\ [][NextAlerts]_vars

\* ------------------------------------------------- load balancer in detail
\* route_request calls followed (routing_stats.total_requests).
MaxCalls == 3
\* Measured response times are 1..MaxResponseTime.
MaxResponseTime == 2

\* Instances of the pool when the load balancer is followed alone.
MaxLBInstances == 2
\* Entries request_history keeps (1000 in the code).
HistoryLimit == 2

LBIds == 1..MaxLBInstances

\* LoadBalancer.strategies.
Strategies == {"round_robin", "least_busy", "response_time", "random",
               "weighted_round_robin"}

\* list(self.coordinator.healthy_instances): the iteration order of a set of
\* uuid strings is whatever the hash table gives; every order of S.
Orders(S) == {q \in [1..Cardinality(S) -> S] :
                 \A a, b \in 1..Cardinality(S) : a # b => q[a] # q[b]}

ListItems(q) == {q[k] : k \in DOMAIN q}

\* _round_robin_strategy: healthy_instances[self._round_robin_index % len].
RoundRobinStrategy(q) == q[(round_robin_index % Len(q)) + 1]

\* The active-request count _least_busy_strategy computes per instance.
LoadOf(i) == Cardinality(ActiveOn(i))

\* A scan that keeps the last item it sees.
MinLoadFromLast(q, k, best) == q[Len(q)]

\* min(instance_loads.items(), key=lambda x: x[1]): the scan keeps the first
\* item of least load in the order the loads were inserted.
RECURSIVE MinLoadFrom(_, _, _)
MinLoadFrom(q, k, best) ==
    IF k > Len(q) THEN best
    ELSE MinLoadFrom(q, k + 1, IF LoadOf(q[k]) < LoadOf(best) THEN q[k] ELSE best)

\* _least_busy_strategy over the list q of healthy instances.
LeastBusyStrategy(q) == MinLoadFrom(q, 2, q[1])

\* Response times are fractions num/den; float('inf') is 1/0.
Infinite == [num |-> 1, den |-> 0]

\* perf.get('avg_response_time', float('inf')) of instance_performance.get(i, {}).
AvgTimeOf(i) ==
    IF i \in DOMAIN instance_performance
    THEN instance_performance[i].avg_response_time
    ELSE Infinite

\* The loop of _response_time_strategy from position k on.
RECURSIVE BestTimeFrom(_, _, _, _)
BestTimeFrom(q, k, best_instance, best_time) ==
    IF k > Len(q) THEN best_instance
    ELSE IF Less(AvgTimeOf(q[k]), best_time)
         THEN BestTimeFrom(q, k + 1, q[k], AvgTimeOf(q[k]))
         ELSE BestTimeFrom(q, k + 1, best_instance, best_time)

\* _response_time_strategy: "return best_instance or healthy_instances[0]".
ResponseTimeStrategy(q) ==
    IF BestTimeFrom(q, 1, NoId, Infinite) = NoId THEN q[1]
    ELSE BestTimeFrom(q, 1, NoId, Infinite)

\* A selection that treats an unknown strategy name as "random".
KnownStrategyRandom(strat) == IF strat \in Strategies THEN strat ELSE "random"

\* _select_instance: "if strategy not in self.strategies: strategy = 'least_busy'".
KnownStrategy(strat) == IF strat \in Strategies THEN strat ELSE "least_busy"

\* _select_instance: what the strategy strat can return for the list q.
\* random.choice and the weighted draw (all weights are positive) can return
\* any item.
SelectInstance(strat, q) ==
    IF q = <<>> THEN {NoId}
    ELSE CASE KnownStrategy(strat) = "round_robin" -> {RoundRobinStrategy(q)}
           [] KnownStrategy(strat) = "least_busy" -> {LeastBusyStrategy(q)}
           [] KnownStrategy(strat) = "response_time" -> {ResponseTimeStrategy(q)}
           [] OTHER -> ListItems(q)

\* self._round_robin_index += 1, in _round_robin_strategy only.
IndexAfterSelectFrozen(strat, q) == round_robin_index

\* _round_robin_strategy: self._round_robin_index += 1 after a selection.
IndexAfterSelect(strat, q) ==
    IF KnownStrategy(strat) = "round_robin" /\ q # <<>>
    THEN round_robin_index + 1
    ELSE round_robin_index

\* _track_request: the PerformanceRecord of an instance routed to first.
NewPerformance ==
    [total_requests |-> 0, total_response_time |-> 0,
     avg_response_time |-> [num |-> 0, den |-> 1],
     success_count |-> 0, error_count |-> 0]

\* _track_request: instance_performance after a request was bound to i.
PerformanceAfterTrack(i) ==
    LET known == IF i \in DOMAIN instance_performance
                 THEN instance_performance
                 ELSE instance_performance @@ (i :> NewPerformance)
    IN  [known EXCEPT ![i].total_requests = @ + 1]

\* complete_request: the record p after a response that took t.
PerformanceAfterComplete(p, success, t) ==
    [p EXCEPT !.total_response_time = @ + t,
              !.avg_response_time = [num |-> p.total_response_time + t,
                                     den |-> p.total_requests],
              !.success_count = IF success THEN @ + 1 ELSE @,
              !.error_count = IF success THEN @ ELSE @ + 1]

\* A retry loop that goes on whatever the attempt number.
RetriesRemainAlways(attempt) == attempt >= 0

\* route_request: "if attempt < self.max_retries" (sleep and continue).
RetriesRemain(attempt) == attempt < max_retries

\* A give-up path that counts the failed route in the loop and again after it.
StatsAfterGiveUpTwice(stats) == [stats EXCEPT !.failed_routes = @ + 2]

\* route_request after the loop: routing_stats['failed_routes'] += 1.
StatsAfterGiveUp(stats) == [stats EXCEPT !.failed_routes = @ + 1]

\* One pass of the loop of route_request for request r, attempt counted from
\* 0, with stats the routing_stats the call has so far: select, validate,
\* track run without suspension; a failed attempt sleeps or gives up.
RouteOutcome(r, attempt, stats) ==
    \E i \in SelectInstance(strategy, healthy_order) :
       /\ round_robin_index' = IndexAfterSelect(strategy, healthy_order)
       /\ IF i # NoId /\ ValidateInstance(i)
          THEN /\ active_requests' = [active_requests EXCEPT ![r] = i]
               /\ instance_performance' = PerformanceAfterTrack(i)
               /\ routing_stats' = [stats EXCEPT !.successful_routes = @ + 1]
               /\ route' = [route EXCEPT ![r] = IdleRoute]
               /\ ev' = Event("route_request", i, "Id", {})
          ELSE /\ UNCHANGED <<active_requests, instance_performance>>
               /\ IF RetriesRemain(attempt)
                  THEN /\ routing_stats' = IF i # NoId
                                           THEN [stats EXCEPT !.retries = @ + 1]
                                           ELSE stats
                       /\ route' = [route EXCEPT ![r] =
                                       [pc |-> "sleep", attempt |-> attempt + 1]]
                       /\ ev' = Event("route_request", i, "retry", {})
                  ELSE /\ routing_stats' = StatsAfterGiveUp(stats)
                       /\ route' = [route EXCEPT ![r] = IdleRoute]
                       /\ ev' = Event("route_request", i, "None", {})

\* LoadBalancer.route_request is called for a new request r: the call is
\* counted and the first attempt runs.
RouteCallBody(r) ==
    /\ phase = "balancer"
    /\ route[r].pc = "idle"
    /\ active_requests[r] = NoId
    /\ RouteOutcome(r, 0, [routing_stats EXCEPT !.total_requests = @ + 1])
    /\ UNCHANGED <<boot, pool, tasks, monitor, strategy, healthy_order,
                   alert_callbacks, dispatch,
                   request_history, browser, instance_health_history>>

\* route_request called from outside the request-handling layer.
RouteCall(r) == RouteCallBody(r) /\ UNCHANGED chat

\* asyncio.sleep in route_request returned: the next attempt runs.
RouteResumeBody(r) ==
    /\ phase = "balancer"
    /\ route[r].pc = "sleep"
    /\ RouteOutcome(r, route[r].attempt, routing_stats)
    /\ UNCHANGED <<boot, pool, tasks, monitor, strategy, healthy_order,
                   alert_callbacks, dispatch,
                   request_history, browser, instance_health_history>>

RouteResume(r) == RouteResumeBody(r) /\ UNCHANGED chat

\* complete_request: the entry appended to request_history (its request id,
\* times and sizes are not followed) and the cut to the most recent HistoryLimit entries.
HistoryAfter(h, r, i, success) ==
    LET a == Append(h, [instance_id |-> i, success |-> success])
    IN  IF Len(a) > HistoryLimit
        THEN SubSeq(a, Len(a) - HistoryLimit + 1, Len(a))
        ELSE a

\* A complete_request that takes every request id for an active one.
InActiveRequestsAlways(r) == r \in LBRequests

\* complete_request: "if request_id not in self.active_requests" (negated).
InActiveRequests(r) == active_requests[r] # NoId

\* LoadBalancer.complete_request for request r, whose response took t
\* (time.time() - start_time) if it is an active one; for any other request
\* id the call logs a warning and returns.
CompleteRequestBody(r, success, t) ==
    /\ phase = "balancer"
    /\ IF InActiveRequests(r)
       THEN /\ active_requests' = [active_requests EXCEPT ![r] = NoId]
            /\ instance_performance' =
                  IF active_requests[r] \in DOMAIN instance_performance
                  THEN [instance_performance EXCEPT ![active_requests[r]] =
                           PerformanceAfterComplete(@, success, t)]
                  ELSE instance_performance
            /\ request_history' =
                  HistoryAfter(request_history, r, active_requests[r], success)
            /\ ev' = Event("complete_request", active_requests[r], "None", {})
       ELSE /\ UNCHANGED <<active_requests, instance_performance, request_history>>
            /\ ev' = Event("complete_request", NoId, "unknown", {})
    /\ UNCHANGED <<boot, pool, tasks, monitor, route, strategy, healthy_order,
                   round_robin_index, routing_stats, alert_callbacks, dispatch,
                   browser, instance_health_history>>

\* complete_request called from outside the request-handling layer.
CompleteTimed(r, success, t) ==
    CompleteRequestBody(r, success, t) /\ UNCHANGED chat

\* The requests bound to instance i, in an order (failed_requests).
FailedRequests(i) == CHOOSE q \in Orders(ActiveOn(i)) : TRUE

\* handle_instance_failure: the record p after complete_request(success=False)
\* ran for the requests q[k..], each with its own response time.
RECURSIVE PerformanceAfterFailures(_, _, _, _)
PerformanceAfterFailures(p, q, k, times) ==
    IF k > Len(q)
    THEN p
    ELSE PerformanceAfterFailures(PerformanceAfterComplete(p, FALSE, times[q[k]]),
                                  q, k + 1, times)

\* handle_instance_failure: request_history after n failures of instance i.
RECURSIVE HistoryAfterFailures(_, _, _)
HistoryAfterFailures(h, i, n) ==
    IF n = 0
    THEN h
    ELSE HistoryAfterFailures(HistoryAfter(h, 0, i, FALSE), i, n - 1)

\* A failure handler that completes only the first of the instance's requests.
ActiveAfterFailureFirst(i) ==
    [r \in DOMAIN active_requests |->
        IF active_requests[r] = i /\ \A q \in ActiveOn(i) : r <= q
        THEN NoId ELSE active_requests[r]]

\* handle_instance_failure: active_requests after every request bound to
\* instance i was popped by complete_request.
ActiveAfterFailure(i) ==
    [r \in DOMAIN active_requests |->
        IF active_requests[r] = i THEN NoId ELSE active_requests[r]]

\* A failure handler that also moves the instance to the unhealthy set.
MembershipAfterFailureMarks(i) ==
    /\ MarkUnhealthy(i)
    /\ healthy_order' \in Orders(healthy_instances')
    /\ UNCHANGED <<instances, instance_metrics>>

\* handle_instance_failure reads coordinator state nowhere and writes none:
\* the registry and the membership sets stay as they are.
MembershipAfterFailure(i) == UNCHANGED <<pool, healthy_order>>

\* LoadBalancer.handle_instance_failure(i): every active request bound to i
\* is completed as a failure (complete_request does not suspend), then the
\* instance's error_count grows once more by their number.
HandleInstanceFailure(i) ==
    /\ phase = "balancer"
    /\ \E times \in [ActiveOn(i) -> 1..MaxResponseTime] :
          instance_performance' =
             IF i \in DOMAIN instance_performance
             THEN [instance_performance EXCEPT ![i] =
                     [PerformanceAfterFailures(@, FailedRequests(i), 1, times)
                        EXCEPT !.error_count = @ + Len(FailedRequests(i))]]
             ELSE instance_performance
    /\ active_requests' = ActiveAfterFailure(i)
    /\ request_history' =
          HistoryAfterFailures(request_history, i, Cardinality(ActiveOn(i)))
    /\ MembershipAfterFailure(i)
    /\ ev' = Event("handle_instance_failure", i, "None", {})
    /\ UNCHANGED <<boot, tasks, monitor, route, strategy,
                   round_robin_index, routing_stats, alert_callbacks, dispatch,
                   browser, instance_health_history, chat>>

\* The health monitor applies a probe result to instance i while requests
\* are routed: the healthy set changes and with it its iteration order.
PoolMarks(i) ==
    /\ phase = "balancer"
    /\ IF i \in healthy_instances THEN MarkUnhealthy(i) ELSE MarkHealthy(i)
    /\ healthy_order' \in Orders(healthy_instances')
    /\ ev' = Quiet
    /\ UNCHANGED <<boot, instances, instance_metrics, tasks, monitor, balancer,
                   strategy, round_robin_index, routing_stats,
                   instance_performance, alert_callbacks, dispatch,
                   request_history, browser, instance_health_history, chat>>

\* InstanceCoordinator.remove_instance completes for instance i while
\* requests are routed.
PoolRemoves(i) ==
    /\ phase = "balancer"
    /\ i \in Registered
    /\ RemoveFinish(i)
    /\ healthy_order' \in Orders(healthy_instances')
    /\ ev' = Quiet
    /\ UNCHANGED <<boot, tasks, monitor, balancer, strategy, round_robin_index,
                   routing_stats, instance_performance, alert_callbacks, dispatch,
                   request_history, browser, instance_health_history, chat>>

\* A running pool met by a new LoadBalancer: some instances, numbered in the
\* order of their creation, each ready and each in one
\* membership set; any configured strategy.
InitBalancer ==
    /\ phase = "balancer"
    /\ initial_count = 0
    /\ boot_i = 0
    /\ \E S \in SUBSET LBIds :
          /\ instances \in [S -> InitializeOutcomes \ {"failed"}]
          /\ healthy_instances \in SUBSET S
          /\ unhealthy_instances = S \ healthy_instances
          /\ instance_metrics = S
    /\ healthy_order \in Orders(healthy_instances)
    /\ op_creating = 0
    /\ removing = [i \in Ids |-> 0]
    /\ scale = NoScaling
    /\ last_scale_action = "none"
    /\ is_monitoring = FALSE
    /\ mon_pc = "off"
    /\ probe = [i \in Ids |-> IdleProbe]
    /\ coord_active = [q \in CoordRequests |-> NoId]
    /\ active_requests = [r \in LBRequests |-> NoId]
    /\ route = [r \in LBRequests |-> IdleRoute]
    /\ strategy \in Strategies
    /\ round_robin_index = 0
    /\ routing_stats = NoStats
    /\ instance_performance = NoPerformance
    /\ alert_callbacks = <<>>
    /\ dispatch = IdleDispatch
    /\ request_history = <<>>
    /\ browser = NoBrowser
    /\ instance_health_history = NoHealthHistory
    /\ chat = NoChat
    /\ ev = Quiet

NextBalancer ==
    \/ \E r \in LBRequests :
          routing_stats.total_requests < MaxCalls /\ RouteCall(r)
    \/ \E r \in LBRequests : RouteResume(r)
    \/ \E r \in LBRequests, success \in BOOLEAN, t \in 1..MaxResponseTime :
          CompleteTimed(r, success, t)
    \/ \E i \in LBIds : PoolMarks(i)
    \/ \E i \in LBIds : PoolRemoves(i)

\* The load balancer under a pool that changes beneath it.
SpecBalancer == InitBalancer /\ [][NextBalancer]_vars

\* Routing, completion and the failure handler over a pool whose healthy
\* set changes.
NextFailure ==
    \/ \E r \in LBRequests :
          routing_stats.total_requests < MaxCalls /\ RouteCall(r)
    \/ \E r \in LBRequests : RouteResume(r)
    \/ \E r \in LBRequests, success \in BOOLEAN, t \in 1..MaxResponseTime :
          CompleteTimed(r, success, t)
    \/ \E i \in LBIds : PoolMarks(i)
    \/ \E i \in LBIds : HandleInstanceFailure(i)

SpecFailure == InitBalancer /\ [][NextFailure]_vars

\* Routing alone under a changing pool: no request is completed.
NextRouting ==
    \/ \E r \in LBRequests :
          routing_stats.total_requests < MaxCalls /\ RouteCall(r)
    \/ \E r \in LBRequests : RouteResume(r)
    \/ \E i \in LBIds : PoolMarks(i)
    \/ \E i \in LBIds : PoolRemoves(i)

\* The sleeps of route_request return: the event loop resumes every call.
SpecRoutingFair ==
    /\ InitBalancer
    /\ [][NextRouting]_vars
    /\ \A r \in LBRequests : WF_vars(RouteResume(r))

\* Periods of the healthy set a round-robin run is followed through.
Periods == 3

\* A pool whose healthy set does not change: every instance ready and
\* healthy, the round_robin strategy configured.
InitRoundRobin ==
    /\ InitBalancer
    /\ strategy = "round_robin"
    /\ healthy_instances # {}
    /\ healthy_instances = Registered
    /\ \A i \in Registered : instances[i] = "ready"

\* Periods * K calls of route_request, and the completions that free the
\* request ids in between.
NextRoundRobin ==
    \/ \E r \in LBRequests :
          /\ routing_stats.total_requests
                < Periods * Cardinality(healthy_instances)
          /\ RouteCall(r)
    \/ \E r \in LBRequests, success \in BOOLEAN, t \in 1..MaxResponseTime :
          CompleteTimed(r, success, t)

SpecRoundRobin == InitRoundRobin /\ [][NextRoundRobin]_vars

\* BrowserManager.create_instance draws each id with uuid.uuid4(); the model
\* numbers the instances in the order of their creation.
CreatedBefore(i, j) == i < j

\* Requests routed to instance i so far: perf['total_requests'].
Routed(i) ==
    IF i \in DOMAIN instance_performance
    THEN instance_performance[i].total_requests
    ELSE 0

\* Requests routed to instance i that have completed: the record counts a
\* request when it is routed, the active-request map holds the ones in flight.
Completed(i) ==
    IF i \in DOMAIN instance_performance
    THEN instance_performance[i].total_requests - LoadOf(i)
    ELSE 0

\* --------------------------------- replacement of several failed instances
\* instances.min_instances of the configuration followed here: a floor of
\* more than one instance, so that more than one failure opens a gap.
ReplaceMinInstances == 2
\* instances.max_instances of that configuration (the default of the code).
ReplaceMaxInstances == 5
\* Two creations can be suspended at once after the size check.
ReplaceIds == 1..(ReplaceMaxInstances + 1)

\* uuid.uuid4() in BrowserManager.create_instance.
ReplacementId == CHOOSE i \in ReplaceIds \ Registered :
                    \A j \in ReplaceIds \ Registered : i <= j

\* The loop of _check_replacement_needed with k creations to go over the
\* registry reg, under this configuration.
ReplaceLoopOf(k, reg) ==
    IF k = 0 \/ Cardinality(reg) >= ReplaceMaxInstances
    THEN IdleProbe
    ELSE [pc |-> "replace", needed |-> k]

\* _perform_health_checks: a probe task is created for every registered
\* instance and gathered.
ReplaceCycle ==
    /\ phase = "replace"
    /\ mon_pc = "sleep"
    /\ mon_pc' = "gather"
    /\ probe' = [i \in ReplaceIds |-> IF i \in Registered
                                      THEN [pc |-> "run", needed |-> 0]
                                      ELSE probe[i]]
    /\ ev' = Quiet
    /\ UNCHANGED <<boot, pool, tasks, is_monitoring, balancer>>
    /\ UNCHANGED isolated

\* instance.health_check() resolved True: _record_healthy_check.
ReplaceProbeSucceeds(i) ==
    /\ phase = "replace"
    /\ probe[i].pc = "run"
    /\ MarkHealthy(i)
    /\ probe' = [probe EXCEPT ![i] = IdleProbe]
    /\ ev' = Event("probe_ok", i, Membership(i), {})
    /\ UNCHANGED <<boot, instances, instance_metrics, tasks, is_monitoring,
                   mon_pc, balancer>>
    /\ UNCHANGED isolated

\* instance.health_check() resolved False, raised or timed out:
\* _handle_instance_failure, and for a new failure _check_replacement_needed
\* up to the first create_instance that suspends.
ReplaceProbeFails(i) ==
    /\ phase = "replace"
    /\ probe[i].pc = "run"
    /\ MarkUnhealthy(i)
    /\ probe' = [probe EXCEPT ![i] =
                   IF WasHealthy(i)
                   THEN ReplaceLoopOf(NeededBelow(healthy_instances', ReplaceMinInstances),
                                      Registered)
                   ELSE IdleProbe]
    /\ ev' = Event("probe_fail", i, Membership(i), {})
    /\ UNCHANGED <<boot, instances, instance_metrics, tasks, is_monitoring,
                   mon_pc, balancer>>
    /\ UNCHANGED isolated

\* coordinator.create_instance() returns to the loop of
\* _check_replacement_needed of probe i, whose next iteration runs.
ReplacementCreated(i, st) ==
    /\ phase = "replace"
    /\ probe[i].pc = "replace"
    /\ IF st = "failed"
       THEN /\ UNCHANGED pool
            /\ ev' = Event("create_replacement", NoId, "None", {})
       ELSE /\ ReplaceIds \ Registered # {}
            /\ BMRegister(ReplacementId, st)
            /\ TrackCreated(ReplacementId)
            /\ UNCHANGED unhealthy_instances
            /\ ev' = Event("create_replacement", ReplacementId, "Id", {})
    /\ probe' = [probe EXCEPT ![i] = ReplaceLoopOf(probe[i].needed - 1, DOMAIN instances')]
    /\ UNCHANGED <<boot, tasks, is_monitoring, mon_pc, balancer>>
    /\ UNCHANGED isolated

\* asyncio.gather returns: every probe task of the cycle has ended.
ReplaceGathered ==
    /\ phase = "replace"
    /\ mon_pc = "gather"
    /\ \A i \in ReplaceIds : probe[i].pc = "none"
    /\ mon_pc' = "sleep"
    /\ ev' = Quiet
    /\ UNCHANGED <<boot, pool, tasks, is_monitoring, probe, balancer>>
    /\ UNCHANGED isolated

\* The server after a bootstrap that created ReplaceMinInstances instances.
InitReplace ==
    /\ phase = "replace"
    /\ initial_count = 0
    /\ boot_i = 0
    /\ instances = [i \in 1..ReplaceMinInstances |-> "ready"]
    /\ healthy_instances = 1..ReplaceMinInstances
    /\ unhealthy_instances = {}
    /\ instance_metrics = 1..ReplaceMinInstances
    /\ op_creating = 0
    /\ removing = [i \in Ids |-> 0]
    /\ scale = NoScaling
    /\ last_scale_action = "none"
    /\ is_monitoring = TRUE
    /\ mon_pc = "sleep"
    /\ probe = [i \in ReplaceIds |-> IdleProbe]
    /\ coord_active = [q \in CoordRequests |-> NoId]
    /\ active_requests = [r \in Requests |-> NoId]
    /\ route = [r \in Requests |-> IdleRoute]
    /\ IsolatedIdle
    /\ ev = Quiet

NextReplace ==
    \/ ReplaceCycle
    \/ \E i \in ReplaceIds : ReplaceProbeSucceeds(i)
    \/ \E i \in ReplaceIds : ReplaceProbeFails(i)
    \/ \E i \in ReplaceIds, st \in InitializeOutcomes : ReplacementCreated(i, st)
    \/ ReplaceGathered

\* The monitor's probes and replacements under a floor of two instances.
SpecReplace == InitReplace /\ [][NextReplace]_vars

\* ------------------------------------------------------------ histories
\* Entries instance_health_history keeps per instance (100 in the code).
HealthHistoryLimit == 2

\* A cut that keeps the oldest entries.
HealthHistoryAfterOldest(h, healthy) ==
    LET a == Append(h, [healthy |-> healthy])
    IN  IF Len(a) > HealthHistoryLimit THEN SubSeq(a, 1, HealthHistoryLimit) ELSE a

\* _record_health_check: the result is appended (of the health_result only
\* 'healthy' is followed) and the list is cut to its last entries.
HealthHistoryAfter(h, healthy) ==
    LET a == Append(h, [healthy |-> healthy])
    IN  IF Len(a) > HealthHistoryLimit
        THEN SubSeq(a, Len(a) - HealthHistoryLimit + 1, Len(a))
        ELSE a

\* _check_instance_health ends for instance i: _record_health_check.
RecordHealthCheck(i, healthy) ==
    /\ phase = "balancer"
    /\ i \in Registered
    /\ instance_health_history' =
          [instance_health_history EXCEPT ![i] = HealthHistoryAfter(@, healthy)]
    /\ ev' = Event("record_health_check", i, BoolRet(healthy), {})
    /\ UNCHANGED <<server, strategy, healthy_order, round_robin_index,
                   routing_stats, instance_performance, alert_callbacks,
                   dispatch, request_history, browser, chat>>

\* _cleanup_old_data: of each history the entries older than 24 hours go,
\* which are the first old[i] of them (the entries of one instance are
\* appended in the order of their timestamps).
CleanupOldData ==
    /\ phase = "balancer"
    /\ \E old \in [Ids -> 0..HealthHistoryLimit] :
          /\ \A i \in Ids : old[i] <= Len(instance_health_history[i])
          /\ \E i \in Ids : old[i] > 0
          /\ instance_health_history' =
                [i \in Ids |-> SubSeq(instance_health_history[i], old[i] + 1,
                                      Len(instance_health_history[i]))]
    /\ ev' = Event("cleanup_old_data", NoId, "None", {})
    /\ UNCHANGED <<server, strategy, healthy_order, round_robin_index,
                   routing_stats, instance_performance, alert_callbacks,
                   dispatch, request_history, browser, chat>>

\* Requests are routed and completed while the monitor records the results
\* of its probes and purges old ones.
NextHistory ==
    \/ \E r \in LBRequests :
          routing_stats.total_requests < MaxCalls /\ RouteCall(r)
    \/ \E r \in LBRequests : RouteResume(r)
    \/ \E r \in LBRequests, success \in BOOLEAN, t \in 1..MaxResponseTime :
          CompleteTimed(r, success, t)
    \/ \E i \in LBIds, healthy \in BOOLEAN : RecordHealthCheck(i, healthy)
    \/ CleanupOldData

\* The pool a new LoadBalancer meets, under the default strategy.
InitHistory == InitBalancer /\ strategy = "least_busy"

SpecHistory == InitHistory /\ [][NextHistory]_vars

\* ------------------------------------------------ the selection on its own
\* A strategy name that LoadBalancer.strategies does not hold.
StrategyNames == Strategies \cup {"fastest"}

\* A PerformanceRecord after one completed request that took t.
MeasuredPerformance(t) ==
    [NewPerformance EXCEPT !.total_requests = 1, !.total_response_time = t,
                           !.avg_response_time = [num |-> t, den |-> 1],
                           !.success_count = 1]

\* A load balancer with any configured or overriding strategy name, met in
\* the middle of its work: requests bound to registered instances, records
\* for some of them, the round-robin position anywhere in its first periods.
InitSelect ==
    /\ phase = "select"
    /\ initial_count = 0
    /\ boot_i = 0
    /\ \E S \in SUBSET LBIds :
          /\ instances \in [S -> InitializeOutcomes \ {"failed"}]
          /\ healthy_instances \in SUBSET S
          /\ unhealthy_instances = S \ healthy_instances
          /\ instance_metrics = S
          /\ active_requests \in [LBRequests -> S \cup {NoId}]
          /\ \E P \in SUBSET S :
                instance_performance \in
                   [P -> {MeasuredPerformance(t) : t \in 1..MaxResponseTime}]
    /\ healthy_order \in Orders(healthy_instances)
    /\ op_creating = 0
    /\ removing = [i \in Ids |-> 0]
    /\ scale = NoScaling
    /\ last_scale_action = "none"
    /\ is_monitoring = FALSE
    /\ mon_pc = "off"
    /\ probe = [i \in Ids |-> IdleProbe]
    /\ coord_active = [q \in CoordRequests |-> NoId]
    /\ route = [r \in LBRequests |-> IdleRoute]
    /\ strategy \in StrategyNames
    /\ round_robin_index \in 0..MaxLBInstances
    /\ routing_stats = NoStats
    /\ alert_callbacks = <<>>
    /\ dispatch = IdleDispatch
    /\ request_history = <<>>
    /\ browser = NoBrowser
    /\ instance_health_history = NoHealthHistory
    /\ chat = NoChat
    /\ ev = Quiet

\* LoadBalancer._select_instance(strategy) is called and returns.
SelectCall ==
    /\ phase = "select"
    /\ round_robin_index < Periods * MaxLBInstances
    /\ \E i \in SelectInstance(strategy, healthy_order) :
          ev' = Event("select_instance", i, IF i = NoId THEN "None" ELSE "Id", {})
    /\ round_robin_index' = IndexAfterSelect(strategy, healthy_order)
    /\ UNCHANGED <<server, strategy, healthy_order, routing_stats,
                   instance_performance, alert_callbacks, dispatch,
                   request_history, browser, instance_health_history, chat>>

NextSelect == SelectCall

\* The strategies as functions of the state they read.
SpecSelect == InitSelect /\ [][NextSelect]_vars

\* ------------------------------------------------------- browser instance
\* BrowserInstance.max_requests_per_session (100 by default in the code).
max_requests_per_session == 2
\* BrowserInstance.session_lifetime in ticks of the clock (3600 s in the code).
session_lifetime == 2
\* The clock is followed for MaxAge ticks after session_created_at.
MaxAge == 3
\* send_message calls that are followed while request_count is not reset.
MaxSends == 3

\* BrowserInstance.__init__.  page: self.page and self.browser are set;
\* created: session_created_at is not None; age: now - session_created_at;
\* fallback: what became of _setup_fallback_mode ("no": it was not called);
\* init, hc, send: where initialize, health_check and send_message stand.
NewBrowser ==
    [status |-> "initializing", page |-> FALSE, request_count |-> 0,
     created |-> FALSE, age |-> 0, fallback |-> "no",
     init |-> "new", hc |-> "idle", send |-> "idle"]

\* What _navigate_and_setup meets: "ids" the chat page and session ids,
\* "no_ids" the chat page and an exception in _generate_session_ids,
\* "fallback" the Cloudflare page or an exception, with _setup_fallback_mode
\* returning True, "fallback_failed" the same with an exception in it.
NavigateOutcomes == {"ids", "no_ids", "fallback", "fallback_failed"}

\* _setup_fallback_mode on instance b: the status it writes and what it returns.
SetupFallbackMode(b, works) ==
    IF works
    THEN [b EXCEPT !.status = "ready_fallback", !.fallback = "ok", !.ret = TRUE]
    ELSE [b EXCEPT !.fallback = "failed", !.ret = FALSE]

\* _navigate_and_setup on instance b (a record with the returned value, ret).
NavigateAndSetup(b, out) ==
    CASE out = "ids" -> [b EXCEPT !.ret = TRUE]
      [] out = "no_ids" -> [b EXCEPT !.ret = FALSE]
      [] out = "fallback" -> SetupFallbackMode(b, TRUE)
      [] out = "fallback_failed" -> SetupFallbackMode(b, FALSE)

\* initialize after _navigate_and_setup returned: "if success" writes the
\* status "ready" and the creation time, whatever the setup wrote before.
AfterSetup(b) ==
    IF b.ret
    THEN [b EXCEPT !.status = "ready", !.created = TRUE, !.age = 0]
    ELSE [b EXCEPT !.status = "failed"]

Returned(b) == [f \in DOMAIN NewBrowser |-> b[f]]

\* Everything but the instance that is followed.
around == <<server, strategy, healthy_order, round_robin_index, routing_stats,
            instance_performance, alert_callbacks, dispatch, request_history,
            instance_health_history, chat>>

\* BrowserInstance.initialize up to the launch of Playwright.
InstanceInitialize ==
    /\ phase = "instance"
    /\ browser.init = "new"
    /\ browser' = [browser EXCEPT !.init = "launch"]
    /\ ev' = Quiet
    /\ UNCHANGED around

\* The browser, its context and its page are there, or an exception of the
\* launch is caught by initialize: status failed, cleanup, False.
LaunchReturn(ok) ==
    /\ phase = "instance"
    /\ browser.init = "launch"
    /\ IF ok
       THEN /\ browser' = [browser EXCEPT !.page = TRUE, !.init = "navigate"]
            /\ ev' = Quiet
       ELSE /\ browser' = [browser EXCEPT !.status = "failed", !.init = "done"]
            /\ ev' = Event("instance_initialize", NoId, "False", {})
    /\ UNCHANGED around

\* _navigate_and_setup returns and initialize ends.
NavigateReturn(out) ==
    /\ phase = "instance"
    /\ browser.init = "navigate"
    /\ LET b == AfterSetup(NavigateAndSetup(browser @@ [ret |-> FALSE], out))
       IN  /\ browser' = [Returned(b) EXCEPT !.init = "done"]
           /\ ev' = Event("instance_initialize", NoId, BoolRet(b.ret), {})
    /\ UNCHANGED around

\* _is_session_expired.
IsSessionExpired(b) ==
    \/ ~b.created
    \/ b.age > session_lifetime
    \/ b.request_count >= max_requests_per_session

\* health_check up to page.evaluate; without a page it returns False.
HealthCheckCall ==
    /\ phase = "instance"
    /\ browser.init = "done"
    /\ browser.hc = "idle"
    /\ IF browser.page
       THEN /\ browser' = [browser EXCEPT !.hc = "evaluate"]
            /\ ev' = Quiet
       ELSE /\ ev' = Event("health_check", NoId, "False", {})
            /\ UNCHANGED browser
    /\ UNCHANGED around

\* page.evaluate returns or raises (it raises on the closed page of a failed
\* instance).  In fallback mode that is the whole check; otherwise an expired
\* session is regenerated: _regenerate_session resets request_count and
\* session_created_at and then awaits _generate_session_ids.
EvaluateReturn(ok) ==
    /\ phase = "instance"
    /\ browser.hc = "evaluate"
    /\ ok => browser.status # "failed"
    /\ IF ~ok \/ browser.status = "ready_fallback" \/ ~IsSessionExpired(browser)
       THEN /\ browser' = [browser EXCEPT !.hc = "idle"]
            /\ ev' = Event("health_check", NoId, BoolRet(ok), {})
       ELSE /\ browser' = [browser EXCEPT !.hc = "regenerate", !.request_count = 0,
                                          !.created = TRUE, !.age = 0]
            /\ ev' = Quiet
    /\ UNCHANGED around

\* _generate_session_ids returns to _regenerate_session, which returns its
\* result to health_check.
RegenerateReturn(ok) ==
    /\ phase = "instance"
    /\ browser.hc = "regenerate"
    /\ browser' = [browser EXCEPT !.hc = "idle"]
    /\ ev' = Event("health_check", NoId, BoolRet(ok), {})
    /\ UNCHANGED around

\* send_message up to page.wait_for_selector; False unless the status is ready.
SendMessageCall ==
    /\ phase = "instance"
    /\ browser.init = "done"
    /\ browser.send = "idle"
    /\ browser.request_count < MaxSends
    /\ IF browser.status # "ready"
       THEN /\ ev' = Event("send_message", NoId, "False", {})
            /\ UNCHANGED browser
       ELSE /\ browser' = [browser EXCEPT !.send = "fill"]
            /\ ev' = Quiet
    /\ UNCHANGED around

\* The page took the message, or one of its calls raised.
SendMessageReturn(ok) ==
    /\ phase = "instance"
    /\ browser.send = "fill"
    /\ browser' = [browser EXCEPT !.send = "idle",
                                  !.request_count = IF ok THEN @ + 1 ELSE @]
    /\ ev' = Event("send_message", NoId, BoolRet(ok), {})
    /\ UNCHANGED around

\* Time passes for the session.
ClockTick ==
    /\ phase = "instance"
    /\ browser.created
    /\ browser.age < MaxAge
    /\ browser' = [browser EXCEPT !.age = @ + 1]
    /\ ev' = Quiet
    /\ UNCHANGED around

InitInstance ==
    /\ phase = "instance"
    /\ Constructed
    /\ strategy = "least_busy"
    /\ healthy_order = <<>>
    /\ round_robin_index = 0
    /\ routing_stats = NoStats
    /\ instance_performance = NoPerformance
    /\ alert_callbacks = <<>>
    /\ dispatch = IdleDispatch
    /\ request_history = <<>>
    /\ browser = NewBrowser
    /\ instance_health_history = NoHealthHistory
    /\ chat = NoChat
    /\ ev = Quiet

NextInstance ==
    \/ InstanceInitialize
    \/ \E ok \in BOOLEAN : LaunchReturn(ok)
    \/ \E out \in NavigateOutcomes : NavigateReturn(out)
    \/ HealthCheckCall
    \/ \E ok \in BOOLEAN : EvaluateReturn(ok)
    \/ \E ok \in BOOLEAN : RegenerateReturn(ok)
    \/ SendMessageCall
    \/ \E ok \in BOOLEAN : SendMessageReturn(ok)
    \/ ClockTick

\* One BrowserInstance from its construction on.
SpecInstance == InitInstance /\ [][NextInstance]_vars

\* ------------------------------------------------- request-handling layer
\* chat_completions once route_request returned or suspended: with an
\* instance id the call goes on, in a sleep of the retry loop it waits, with
\* None it raises 503.
ChatAfterRouting(r) ==
    chat' = [chat EXCEPT ![r] =
                IF ev'.ret = "Id"
                THEN [pc |-> "routed", instance_id |-> ev'.id]
                ELSE IF ev'.ret = "retry"
                     THEN [pc |-> "routing", instance_id |-> NoId]
                     ELSE IdleChat]

\* POST /v1/chat/completions with a new request id r: route_request.
ChatCall(r) ==
    /\ chat[r].pc = "idle"
    /\ RouteCallBody(r)
    /\ ChatAfterRouting(r)

\* The sleep of route_request returned inside chat_completions.
ChatResume(r) ==
    /\ chat[r].pc = "routing"
    /\ RouteResumeBody(r)
    /\ ChatAfterRouting(r)

\* A handler that raises its 503 without telling the load balancer.
CompleteFailedDropped(r, t) ==
    /\ phase = "balancer"
    /\ ev' = Event("complete_request", NoId, "unknown", {})
    /\ UNCHANGED <<boot, pool, tasks, monitor, balancer, strategy,
                   healthy_order, round_robin_index, routing_stats,
                   instance_performance, alert_callbacks, dispatch,
                   request_history, browser, instance_health_history>>

\* chat_completions before each raise that follows the routing:
\* "await load_balancer.complete_request(request_id, success=False)".
CompleteFailed(r, t) == CompleteRequestBody(r, FALSE, t)

\* chat_completions with the instance id route_request returned, up to the
\* await of send_message. The instance is missing if the registry lost it;
\* ready says whether its session ids are set and the payload conversion
\* raised nothing ("except Exception" completes the request as well).
ChatRouted(r, ready) ==
    /\ chat[r].pc = "routed"
    /\ IF chat[r].instance_id \in Registered /\ ready
       THEN /\ phase = "balancer"
            /\ chat' = [chat EXCEPT ![r].pc = "send"]
            /\ ev' = Quiet
            /\ UNCHANGED <<boot, pool, tasks, monitor, balancer, strategy,
                           healthy_order, round_robin_index, routing_stats,
                           instance_performance, alert_callbacks, dispatch,
                           request_history, browser, instance_health_history>>
       ELSE /\ \E t \in 1..MaxResponseTime : CompleteFailed(r, t)
            /\ chat' = [chat EXCEPT ![r] = IdleChat]

\* instance.send_message returned to chat_completions: accepted, the call
\* goes on to wait for the response; rejected (or raised), the request is
\* completed as a failure and 503 (500) is raised.
ChatSendReturn(r, success) ==
    /\ chat[r].pc = "send"
    /\ IF success
       THEN /\ phase = "balancer"
            /\ chat' = [chat EXCEPT ![r].pc = "respond"]
            /\ ev' = Quiet
            /\ UNCHANGED <<boot, pool, tasks, monitor, balancer, strategy,
                           healthy_order, round_robin_index, routing_stats,
                           instance_performance, alert_callbacks, dispatch,
                           request_history, browser, instance_health_history>>
       ELSE /\ \E t \in 1..MaxResponseTime : CompleteFailed(r, t)
            /\ chat' = [chat EXCEPT ![r] = IdleChat]

\* stream_generator / non_stream_response leave their loop (the response is
\* done, carries an error, the wait for the next chunk timed out, or an
\* exception was raised): "finally" completes the request with success=True.
ChatResponseEnds(r) ==
    /\ chat[r].pc = "respond"
    /\ \E t \in 1..MaxResponseTime : CompleteRequestBody(r, TRUE, t)
    /\ chat' = [chat EXCEPT ![r] = IdleChat]

\* Requests pass through chat_completions while the health monitor reports
\* failed instances to the load balancer and instances are removed.
NextChat ==
    \/ \E r \in LBRequests :
          routing_stats.total_requests < MaxCalls /\ ChatCall(r)
    \/ \E r \in LBRequests : ChatResume(r)
    \/ \E r \in LBRequests, ready \in BOOLEAN : ChatRouted(r, ready)
    \/ \E r \in LBRequests, success \in BOOLEAN : ChatSendReturn(r, success)
    \/ \E r \in LBRequests : ChatResponseEnds(r)
    \/ \E i \in LBIds : HandleInstanceFailure(i)
    \/ \E i \in LBIds : PoolRemoves(i)

\* The event loop resumes every suspended handler: send_message returns
\* (Playwright's calls time out) and the wait for the response ends
\* (asyncio.wait_for with a timeout).
ChatFairness ==
    \A r \in LBRequests :
       /\ WF_vars(ChatResume(r))
       /\ WF_vars(\E ready \in BOOLEAN : ChatRouted(r, ready))
       /\ WF_vars(\E success \in BOOLEAN : ChatSendReturn(r, success))
       /\ WF_vars(ChatResponseEnds(r))

SpecChat == InitHistory /\ [][NextChat]_vars /\ ChatFairness

\* ------------------------------------------------------------- properties
NoCreateRemoveInFlight ==
    /\ phase # "boot"
    /\ op_creating = 0
    /\ \A e \in Evaluations : scale[e].pc = "idle"
    /\ \A i \in Ids : removing[i] = 0 /\ probe[i].pc # "replace"

\* C1: whenever no instance creation or removal is in flight, the healthy
\* and unhealthy sets are disjoint and every registered instance id is in
\* exactly one of them.
C1_MembershipPartition ==
    NoCreateRemoveInFlight =>
        /\ healthy_instances \cap unhealthy_instances = {}
        /\ \A i \in Registered : i \in healthy_instances \cup unhealthy_instances

C1_Witness ==
    /\ phase = "running"
    /\ NoCreateRemoveInFlight
    /\ Registered \cap healthy_instances # {}
    /\ Registered \cap unhealthy_instances # {}
    /\ \E r \in Requests : active_requests[r] # NoId

\* C2: the number of registered instances never exceeds max_instances.
C2_PoolWithinMax == Cardinality(Registered) <= max_instances

\* C3: remove_instance called on a healthy instance while the healthy set
\* holds at most min_instances ids returns False and leaves the registry,
\* both membership sets and the metrics unchanged.
C3_FloorRejectsHealthyRemoval ==
    [][(/\ ev'.op = "remove_instance"
        /\ ev'.id \in healthy_instances
        /\ Cardinality(healthy_instances) <= min_instances)
       => (ev'.ret = "False" /\ UNCHANGED pool)]_vars

C3_Witness ==
    /\ ev.op = "remove_instance"
    /\ ev.ret = "False"
    /\ ev.id \in healthy_instances \cap Registered
    /\ Cardinality(healthy_instances) <= min_instances

\* C4: remove_instance called on a registered instance of the unhealthy set
\* is not held back by the healthy floor: the call goes on to the removal.
C4_UnhealthyRemovalIgnoresFloor ==
    [][(/\ ev'.op = "remove_instance"
        /\ ev'.id \in unhealthy_instances \cap Registered)
       => ev'.ret = "await"]_vars

\* C5: remove_instance on an instance that has an active request returns
\* False, and no instance leaves the registry of the running server while
\* an active request is bound to it.
C5_NoRemovalWithActiveRequests ==
    [][/\ (ev'.op = "remove_instance" /\ ActiveOn(ev'.id) # {}) => ev'.ret = "False"
       /\ \A i \in Registered :
             (phase' = "running" /\ i \notin DOMAIN instances') => ActiveOn(i) = {}]_vars

\* C6 (as stated): a newly registered instance is in neither membership set.
C6_NewInstanceInNeitherSet ==
    [][\A i \in Ids :
          (i \notin Registered /\ i \in DOMAIN instances')
          => (i \notin healthy_instances' /\ i \notin unhealthy_instances')]_vars

\* C6 (amended): a newly registered instance is in healthy_instances, and not
\* in unhealthy_instances, from the step that registers it, before any probe.
C6_NewInstanceStartsHealthy ==
    [][\A i \in Ids :
          (i \notin Registered /\ i \in DOMAIN instances')
          => (i \in healthy_instances' /\ i \notin unhealthy_instances')]_vars

C6_Witness ==
    /\ ev.op = "create_instance_done"
    /\ ev.ret = "Id"
    /\ ev.id \in Registered \cap healthy_instances
    /\ probe[ev.id].pc = "none"

\* C7: an instance_failed alert is delivered in exactly the steps that move
\* an instance from healthy to unhealthy; a failed probe of an instance that
\* is already unhealthy delivers no alert and leaves both sets unchanged.
C7_FailedAlertOncePerTransition ==
    [][\A i \in Ids :
          /\ (<<"instance_failed", i>> \in ev'.alerts)
                <=> (i \in healthy_instances /\ i \in unhealthy_instances')
          /\ (/\ ev'.op \in {"probe_fail", "probe_timeout"}
              /\ ev'.id = i
              /\ i \in unhealthy_instances)
             => (/\ ev'.alerts = {}
                 /\ UNCHANGED <<healthy_instances, unhealthy_instances>>)]_vars

C7_Witness ==
    /\ ev.op = "probe_fail"
    /\ ev.ret = "was_unhealthy"
    /\ ev.alerts = {}
    /\ ev.id \in unhealthy_instances

\* C8: an instance_recovered alert is delivered by exactly the successful
\* probes that find their instance in the unhealthy set, every move from
\* unhealthy to healthy belongs to such a probe, and once a successful
\* probe's result is applied the instance is healthy and not unhealthy.
C8_RecoveredAlertOncePerTransition ==
    [][\A i \in Ids :
          /\ (<<"instance_recovered", i>> \in ev'.alerts)
                <=> (ev'.op = "probe_ok" /\ ev'.id = i /\ i \in unhealthy_instances)
          /\ (i \in unhealthy_instances /\ i \in healthy_instances')
             => <<"instance_recovered", i>> \in ev'.alerts
          /\ (ev'.id = i /\ ev'.op = "probe_ok")
             => (i \in healthy_instances' /\ i \notin unhealthy_instances')]_vars

C8_Witness ==
    /\ ev.op = "probe_ok"
    /\ <<"instance_recovered", ev.id>> \in ev.alerts
    /\ ev.id \in healthy_instances
    /\ ev.id \notin unhealthy_instances

\* C9: a probe that does not answer within instance_timeout is handled as a
\* failed probe (the instance is unhealthy afterwards, with instance_failed
\* delivered if it was healthy), and the cycle's gather does not wait for it.
C9_TimeoutIsFailure ==
    /\ [][\A i \in Ids :
             (probe[i].pc = "hung" /\ probe'[i].pc # "hung" /\ phase' = "running")
             => (/\ i \in unhealthy_instances'
                 /\ i \notin healthy_instances'
                 /\ i \in healthy_instances => <<"instance_failed", i>> \in ev'.alerts)]_vars
    /\ \A i \in Ids : (probe[i].pc = "hung") ~> (mon_pc # "gather")

C9_Witness ==
    /\ ev.op = "probe_timeout"
    /\ ev.ret = "was_healthy"
    /\ <<"instance_failed", ev.id>> \in ev.alerts
    /\ ev.id \in unhealthy_instances

\* C10: while monitoring is enabled, an error in one cycle does not end it:
\* after the error the loop starts again, and cycles begin infinitely often.
C10_MonitoringSurvivesErrors ==
    /\ (mon_pc = "recover") ~> (mon_pc = "start" \/ ~is_monitoring)
    /\ []<>(~is_monitoring \/ mon_pc = "start")
    /\ []<>(~is_monitoring \/ mon_pc = "analyze")

C10_Witness ==
    /\ ev.op = "monitor_restart"
    /\ is_monitoring
    /\ mon_pc = "start"

\* C11: a callback that raises keeps no later callback from receiving the
\* alert and its exception does not leave the dispatcher: at every point of
\* the loop all callbacks before the position have been called, nothing was
\* raised out of it, and it returns only with the list exhausted.
C11_CallbacksIsolated ==
    /\ [](dispatch.pc # "idle" =>
             /\ ~dispatch.raised
             /\ \A k \in 1..Len(alert_callbacks) :
                   k < dispatch.next => k \in dispatch.received)
    /\ [][(dispatch.pc = "loop" /\ dispatch'.pc = "done")
             => dispatch.received = 1..Len(alert_callbacks)]_vars

C11_Witness ==
    /\ dispatch.pc = "done"
    /\ \E k, j \in dispatch.received :
          k < j /\ alert_callbacks[k] = "raises"

\* C12: in every monitor cycle that finds fewer than min_instances healthy
\* instances the monitor asks the coordinator for the missing ones: while
\* monitoring runs, again and again either the healthy set has reached
\* min_instances, or the pool is full, or a replacement build is under way.
C12_ReplacementEveryCycle ==
    []<>(\/ ~is_monitoring
         \/ Cardinality(healthy_instances) >= min_instances
         \/ AtCapacity
         \/ \E i \in Ids : probe[i].pc = "replace")

\* C13: whenever route_request returns an instance id, the instance was
\* registered, in healthy_instances and of status ready (or ready_degraded)
\* in the step that recorded its active-request entry.
C13_RoutedInstanceValidated ==
    [][(ev'.op = "route_request" /\ ev'.ret = "Id")
       => /\ ev'.id \in Registered
          /\ ev'.id \in DOMAIN instances'
          /\ ev'.id \in healthy_instances
          /\ ev'.id \in healthy_instances'
          /\ instances[ev'.id] \in {"ready", "ready_degraded"}
          /\ \E r \in LBRequests :
                active_requests[r] = NoId /\ active_requests'[r] = ev'.id]_vars

C13_Witness ==
    /\ ev.op = "route_request"
    /\ ev.ret = "Id"
    /\ routing_stats.retries > 0
    /\ instances[ev.id] = "ready"

\* C14: a route_request call makes at most max_retries + 1 selections and
\* ends: a call that sleeps has made at most max_retries attempts, and every
\* sleeping call returns.
C14_RoutingTerminates ==
    /\ [](\A r \in LBRequests :
             route[r].pc = "sleep" => route[r].attempt \in 1..max_retries)
    /\ \A r \in LBRequests : (route[r].pc = "sleep") ~> (route[r].pc = "idle")

C14_Witness ==
    /\ ev.op = "route_request"
    /\ ev.ret = "None"
    /\ routing_stats.failed_routes > 0
    /\ healthy_instances # {}

\* C15: a call whose attempts all fail returns None, records no active
\* request, changes no performance record and counts one failed route: the
\* failed attempts change neither map, the last one adds one to
\* failed_routes, and every call is counted once as routed, failed or still
\* in progress.
C15_ExhaustedRetries ==
    /\ [](routing_stats.total_requests
            = routing_stats.successful_routes + routing_stats.failed_routes
              + Cardinality({r \in LBRequests : route[r].pc = "sleep"}))
    /\ [][(ev'.op = "route_request" /\ ev'.ret \in {"retry", "None"})
          => /\ UNCHANGED <<active_requests, instance_performance>>
             /\ routing_stats'.successful_routes = routing_stats.successful_routes
             /\ routing_stats'.failed_routes =
                   routing_stats.failed_routes + (IF ev'.ret = "None" THEN 1 ELSE 0)
             /\ \A r \in LBRequests :
                   (route[r] # route'[r] /\ ev'.ret = "None")
                   => (active_requests'[r] = NoId /\ route'[r] = IdleRoute)]_vars

C15_Witness ==
    /\ ev.op = "route_request"
    /\ ev.ret = "None"
    /\ ev.id # NoId
    /\ routing_stats.failed_routes = 1
    /\ routing_stats.retries = max_retries

\* C16: with a non-empty healthy set, the least_busy strategy returns a
\* healthy instance whose active-request count is the least in the set.
C16_LeastBusyIsMinimal ==
    [][(ev'.op = "route_request" /\ strategy = "least_busy"
        /\ healthy_instances # {})
       => /\ ev'.id \in healthy_instances
          /\ \A j \in healthy_instances : LoadOf(ev'.id) <= LoadOf(j)]_vars

C16_Witness ==
    /\ strategy = "least_busy"
    /\ ev.op = "route_request"
    /\ ev.ret = "Id"
    /\ LoadOf(ev.id) = 1
    /\ \E j \in healthy_instances : j # ev.id /\ LoadOf(j) = 1

\* C17: when several healthy instances tie for the least active-request
\* count, least_busy returns the one created first among them.
C17_TiesToEarliestCreated ==
    [][(ev'.op = "route_request" /\ strategy = "least_busy"
        /\ healthy_instances # {})
       => \A j \in healthy_instances :
             LoadOf(j) = LoadOf(ev'.id) => ~CreatedBefore(j, ev'.id)]_vars

\* C19: the response_time strategy returns the healthy instance of least
\* average response time among those with a completed request, and one
\* without a completed request only when no healthy instance has any.
C19_ResponseTimePrefersData ==
    [][(ev'.op = "route_request" /\ strategy = "response_time"
        /\ \E j \in healthy_instances : Completed(j) > 0)
       => /\ ev'.id \in healthy_instances
          /\ Completed(ev'.id) > 0
          /\ \A j \in healthy_instances :
                Completed(j) > 0 => ~Less(AvgTimeOf(j), AvgTimeOf(ev'.id))]_vars

\* C20: after every complete_request the instance's avg_response_time is
\* the sum of the response times of its completed requests divided by the
\* number of its completed requests, also while other requests routed to it
\* are in flight.
C20_AverageOverCompleted ==
    [][(ev'.op = "complete_request" /\ ev'.id \in DOMAIN instance_performance')
       => LET p == instance_performance'[ev'.id]
              in_flight == Cardinality({r \in LBRequests :
                                          active_requests'[r] = ev'.id})
          IN  p.avg_response_time.num * (p.total_requests - in_flight)
                 = p.total_response_time * p.avg_response_time.den]_vars

\* C18: over a healthy set of size K that does not change, round_robin
\* selections follow the list cyclically from a position that persists
\* across calls: the instance at place k of the list has been returned once
\* for each selection number n < round_robin_index with n % K = k - 1, so
\* after 3K selections every instance has been returned exactly 3 times.
C18_RoundRobinCycles ==
    /\ [](/\ round_robin_index = routing_stats.successful_routes
          /\ \A k \in 1..Len(healthy_order) :
                Routed(healthy_order[k])
                   = (round_robin_index + Len(healthy_order) - k)
                        \div Len(healthy_order))
    /\ [](round_robin_index = Periods * Cardinality(healthy_instances)
            => \A i \in healthy_instances : Routed(i) = Periods)
    /\ [][ev'.op = "route_request"
            => /\ ev'.ret = "Id"
               /\ ev'.id = healthy_order[(routing_stats.total_requests
                                            % Cardinality(healthy_instances)) + 1]
               /\ UNCHANGED healthy_order]_vars

C18_Witness ==
    /\ strategy = "round_robin"
    /\ Cardinality(healthy_instances) >= 2
    /\ round_robin_index = Periods * Cardinality(healthy_instances)
    /\ ev.op = "route_request"
    /\ ev.id = healthy_order[Len(healthy_order)]

\* C21: when handle_instance_failure(i) returns, no active request is bound
\* to i, one failure entry of i was appended to the request history for
\* each request removed (within the history's limit), and the entries bound
\* to other instances are as before.
C21_FailureClearsInstance ==
    [][ev'.op = "handle_instance_failure"
       => /\ \A r \in LBRequests :
                active_requests'[r] = (IF active_requests[r] = ev'.id
                                       THEN NoId ELSE active_requests[r])
          /\ \E n \in 0..HistoryLimit, kept \in 0..Len(request_history) :
                /\ n = IF Cardinality(ActiveOn(ev'.id)) > HistoryLimit
                       THEN HistoryLimit ELSE Cardinality(ActiveOn(ev'.id))
                /\ Len(request_history') = kept + n
                /\ kept = IF Len(request_history) + n > HistoryLimit
                          THEN HistoryLimit - n ELSE Len(request_history)
                /\ \A k \in 1..kept :
                      request_history'[k]
                         = request_history[Len(request_history) - kept + k]
                /\ \A k \in kept + 1..kept + n :
                      request_history'[k]
                         = [instance_id |-> ev'.id, success |-> FALSE]]_vars

C21_Witness ==
    /\ ev.op = "handle_instance_failure"
    /\ Len(request_history) = 2
    /\ \A k \in 1..2 : request_history[k] = [instance_id |-> ev.id, success |-> FALSE]
    /\ \E r \in LBRequests : active_requests[r] \notin {NoId, ev.id}

\* C22: an active request bound to an instance that the health monitor moved
\* from healthy to unhealthy is eventually removed from the load balancer's
\* active-request map, without its own completion being awaited.
C22_FailedInstanceReconciled ==
    \A r \in Requests, i \in Ids :
       (active_requests[r] = i /\ i \in unhealthy_instances)
          ~> (active_requests[r] # i)

\* C23: in every state the load factor used for autoscaling is
\* active_request_count / max(|healthy_instances|, 1) clamped to [0, 1]; with
\* no healthy instance and no active request it is 0.
C23_LoadFactor ==
    LET n == CoordActiveCount
        d == IF healthy_instances = {} THEN 1 ELSE Cardinality(healthy_instances)
    IN  CalculateCurrentLoad.num * (IF n > d THEN 1 ELSE d)
           = (IF n > d THEN 1 ELSE n) * CalculateCurrentLoad.den

\* C24: requests routed by the load balancer and still in flight count
\* toward the load factor: with one healthy instance that holds every
\* routed request, a free place in the pool and no scale action inside the
\* cooldown or in progress, a call of scale_instances starts a scale-up.
C24_RoutedRequestsScaleUp ==
    [][(/\ ev'.op \in {"scale_instances", "scale_up", "scale_down"}
        /\ last_scale_action # "recent"
        /\ \A e \in Evaluations : scale[e].pc = "idle"
        /\ Cardinality(healthy_instances) = 1
        /\ ~AtCapacity
        /\ \A r \in Requests : active_requests[r] \in healthy_instances)
       => (ev'.op = "scale_up" /\ ev'.ret = "await")]_vars

\* C25: no scale action is started within scale_cooldown of the previous
\* one: when a call of scale_instances starts a creation or a removal, no
\* scale action finished inside the cooldown and none that started inside
\* it is in progress.
C25_CooldownGatesScaling ==
    [][\A e \in Evaluations :
          (scale[e].pc = "idle" /\ scale'[e].pc # "idle")
          => /\ last_scale_action # "recent"
             /\ \A o \in Evaluations \ {e} : scale[o].started # "recent"]_vars

\* C26: InstanceCoordinator.initialize returns False exactly when no initial
\* instance was created; when it returns True every instance it tracks is
\* registered and the server runs; when it returns False the server exits
\* and takes no further step.
C26_BootstrapReportsFailure ==
    /\ [][ev'.op = "initialize"
          => /\ ev'.ret \in {"True", "False"}
             /\ ev'.ret = "False" <=> Registered = {}
             /\ ev'.ret = "True"
                   => /\ phase' = "running"
                      /\ healthy_instances \subseteq Registered
                      /\ instance_metrics \subseteq Registered
                      /\ Cardinality(Registered) <= initial_count
             /\ ev'.ret = "False" => phase' = "failed"]_vars
    /\ [][phase # "failed"]_vars

C26_Witness ==
    /\ phase = "failed"
    /\ ev.op = "initialize"
    /\ ev.ret = "False"
    /\ Registered = {}
    /\ ~is_monitoring

\* C27: when initialize ends after _setup_fallback_mode succeeded, it returns
\* True and leaves the status ready_fallback, which is not ready; it leaves
\* the status failed only when there is no page to fall back with or the
\* fallback mode was tried and failed; and it never returns with the status
\* initializing.
C27_DegradedInitialize ==
    [][ev'.op = "instance_initialize"
          => /\ browser'.status # "initializing"
             /\ browser'.fallback = "ok"
                   => ev'.ret = "True" /\ browser'.status = "ready_fallback"
             /\ browser'.status = "failed"
                   => ~browser'.page \/ browser'.fallback = "failed"]_vars

\* C28: a send_message that ends returns True and adds one to request_count
\* when the status is ready or ready_fallback, and returns False and leaves
\* request_count alone in every other status.
C28_SendAcceptedWhenReady ==
    [][ev'.op = "send_message"
          => IF browser.status \in {"ready", "ready_fallback"}
             THEN /\ ev'.ret = "True"
                  /\ browser'.request_count = browser.request_count + 1
             ELSE /\ ev'.ret = "False"
                  /\ browser'.request_count = browser.request_count]_vars

\* C29: a health_check that returns True leaves a session that is not
\* expired, and one that returns False after the regeneration of an expired
\* session failed leaves the session expired for the probes that follow.
C29_HealthyMeansFresh ==
    [][ev'.op = "health_check"
          => /\ ev'.ret = "True" => ~IsSessionExpired(browser')
             /\ (ev'.ret = "False" /\ browser.hc = "regenerate")
                   => IsSessionExpired(browser')]_vars

\* Steps taken by code of the HealthMonitor (_record_healthy_check and
\* _handle_instance_failure, reached from the probe of one instance).
MonitorSteps == {"probe_ok", "probe_fail", "probe_timeout"}

\* C30: no step of the Health Monitor changes healthy_instances or
\* unhealthy_instances; the sets change only in steps of the Coordinator.
C30_CoordinatorSoleWriter ==
    [][ev'.op \in MonitorSteps
          => /\ healthy_instances' = healthy_instances
             /\ unhealthy_instances' = unhealthy_instances]_vars

\* C31: route_request, complete_request and handle_instance_failure leave
\* the instance registry, healthy_instances and unhealthy_instances as they
\* are; of the state followed here they change only the active-request map,
\* the performance records, the request history, the routing statistics and
\* the round-robin position (and the position of the call itself).
C31_BalancerWritesOwnState ==
    [][ev'.op \in {"route_request", "complete_request", "handle_instance_failure"}
          => UNCHANGED <<instances, healthy_instances, unhealthy_instances,
                         instance_metrics, healthy_order, boot, tasks, monitor,
                         strategy, alert_callbacks, dispatch, browser>>]_vars

C31_Witness ==
    /\ ev.op = "handle_instance_failure"
    /\ ev.id \in healthy_instances
    /\ Len(request_history) > 0
    /\ request_history[Len(request_history)] = [instance_id |-> ev.id, success |-> FALSE]
    /\ routing_stats.successful_routes > 0

\* C32: route_request changes no PerformanceRecord: the records are the same
\* after a routing step as before it, and change only when a request is
\* completed.
C32_PerformanceOnlyOnCompletion ==
    [][instance_performance' # instance_performance
          => ev'.op \in {"complete_request", "handle_instance_failure"}]_vars

\* C33: _select_instance returns None exactly when the healthy set is
\* empty, otherwise a member of the healthy set, for each of the five
\* strategies; it leaves the active-request map alone; and for a strategy
\* name it does not know it returns what least_busy returns.
C33_StrategiesSelectHealthy ==
    [][ev'.op = "select_instance"
          => /\ ev'.id = NoId <=> healthy_instances = {}
             /\ ev'.id # NoId => ev'.id \in healthy_instances
             /\ active_requests' = active_requests
             /\ strategy \notin Strategies
                   => ev'.id \in SelectInstance("least_busy", healthy_order)]_vars

C33_Witness ==
    /\ ev.op = "select_instance"
    /\ strategy \notin Strategies
    /\ Cardinality(healthy_instances) = 2
    /\ LoadOf(healthy_order[1]) > LoadOf(healthy_order[2])
    /\ ev.id = healthy_order[2]

\* C34: no instance's health-check history and no request history ever
\* holds more entries than its limit, and what a probe result or a completion
\* leaves in the history is the end of the old history followed by the new
\* entry: the most recent entries, in the order they were appended.
C34_HistoriesBounded ==
    /\ [](/\ \A i \in Ids : Len(instance_health_history[i]) <= HealthHistoryLimit
          /\ Len(request_history) <= HistoryLimit)
    /\ [][ev'.op = "record_health_check"
            => \E k \in 0..1 :
                  /\ k = 1 <=> Len(instance_health_history[ev'.id]) = HealthHistoryLimit
                  /\ instance_health_history'[ev'.id]
                        = SubSeq(instance_health_history[ev'.id], k + 1,
                                 Len(instance_health_history[ev'.id]))
                          \o <<[healthy |-> ev'.ret = "True"]>>]_vars
    /\ [][(ev'.op = "complete_request" /\ ev'.id # NoId)
            => \E k \in 0..1 :
                  /\ k = 1 <=> Len(request_history) = HistoryLimit
                  /\ request_history'
                        = SubSeq(request_history, k + 1, Len(request_history))
                          \o <<request_history'[Len(request_history')]>>
                  /\ request_history'[Len(request_history')].instance_id = ev'.id]_vars

C34_Witness ==
    /\ ev.op = "record_health_check"
    /\ ev.ret = "False"
    /\ instance_health_history[ev.id] = <<[healthy |-> TRUE], [healthy |-> FALSE]>>
    /\ Len(request_history) = HistoryLimit
    /\ routing_stats.total_requests = MaxCalls
    /\ request_history[1].success # request_history[2].success

\* C35: for every instance with a PerformanceRecord, success_count plus
\* error_count is at most total_requests, the number of requests routed to it.
C35_TalliesWithinRouted ==
    \A i \in DOMAIN instance_performance :
       instance_performance[i].success_count + instance_performance[i].error_count
          <= instance_performance[i].total_requests

\* C36: whenever no creation, removal or probe is in flight, every id in
\* healthy_instances or unhealthy_instances is a registered instance.
C36_MembersRegistered ==
    (NoCreateRemoveInFlight /\ \A i \in Ids : probe[i].pc = "none")
       => healthy_instances \cup unhealthy_instances \subseteq Registered

\* C37: the creation of a replacement instance by the monitor never leaves
\* more healthy instances than min_instances: the replacements created for
\* the failures of one cycle do not exceed the gap.
C37_ReplacementsWithinGap ==
    [][(ev'.op = "create_replacement" /\ ev'.ret = "Id")
          => Cardinality(healthy_instances') <= ReplaceMinInstances]_vars

\* C38: while the server runs and no instance is unhealthy, a step in which
\* remove_instance takes a healthy instance out of the registry and the
\* healthy set leaves at least min_instances healthy instances.
C38_RemovalsKeepFloor ==
    [][(/\ phase' = "running"
        /\ unhealthy_instances = {}
        /\ \E i \in Registered \cap healthy_instances :
              i \notin DOMAIN instances' /\ i \notin healthy_instances')
          => Cardinality(healthy_instances') >= min_instances]_vars

\* C39: complete_request for a request id that is not in the active-request
\* map (never routed, or completed before, by handle_instance_failure for
\* one) changes no performance record, no counter, no history entry and no
\* active-request entry.
C39_UnknownCompletionIsNoOp ==
    [][(ev'.op = "complete_request" /\ ev'.id = NoId)
          => UNCHANGED <<active_requests, instance_performance, request_history,
                         routing_stats, round_robin_index, route>>]_vars

C39_Witness ==
    /\ ev.op = "complete_request"
    /\ ev.id = NoId
    /\ \A r \in LBRequests : active_requests[r] = NoId
    /\ Len(request_history) > 0
    /\ \E i \in DOMAIN instance_performance :
          /\ instance_performance[i].error_count = 2
          /\ instance_performance[i].total_requests = 1

\* C40: a request for which route_request returned an instance is passed to
\* complete_request by chat_completions on each of its paths: the call that
\* holds the instance id ends, it ends in no other way than by a
\* complete_request, and while no call is under way for a request id the
\* active-request map holds no entry for it.
C40_RoutedIsCompleted ==
    /\ \A r \in LBRequests : (chat[r].pc = "routed") ~> (chat[r].pc = "idle")
    /\ [][\A r \in LBRequests :
             (chat[r].pc \in {"routed", "send", "respond"} /\ chat'[r].pc = "idle")
                => ev'.op = "complete_request"]_vars
    /\ [](\A r \in LBRequests : chat[r].pc = "idle" => active_requests[r] = NoId)

C40_Witness ==
    /\ ev.op = "complete_request"
    /\ ev.id # NoId
    /\ Len(request_history) > 0
    /\ ~request_history[Len(request_history)].success
    /\ \E r \in LBRequests : chat[r].pc = "respond" /\ active_requests[r] # NoId

====
